---- MODULE Spec2Model ----
(***************************************************************************)
(* A model of bitbake's fetch orchestration core, lib/bb/fetch2/__init__.py *)
(*                                                                         *)
(* Strings are sequences of one-character strings, so that the URI codec,  *)
(* the regular-expression substitution of uri_replace and the os.path      *)
(* helpers are computed character by character as the code computes them.  *)
(* Python's None is the value None below; "" is the empty sequence.        *)
(***************************************************************************)
EXTENDS Integers, Sequences, FiniteSets, TLC

----------------------------------------------------------------------------
(* Python values and string primitives                                      *)

None == <<"None">>

Falsy(x) == x = None \/ x = <<>>

SetMax(S) == CHOOSE x \in S : \A y \in S : y <= x

SetMin(S) == CHOOSE x \in S : \A y \in S : x <= y

\* str.find(c) + 1: the first position of character c in s, 0 when absent
Find(s, c) ==
    LET hits == {i \in 1..Len(s) : s[i] = c}
    IN IF hits = {} THEN 0 ELSE SetMin(hits)

\* str.rfind(c) + 1
RFind(s, c) ==
    LET hits == {i \in 1..Len(s) : s[i] = c}
    IN IF hits = {} THEN 0 ELSE SetMax(hits)

StartsAt(s, i, t) ==
    /\ i + Len(t) - 1 <= Len(s)
    /\ \A j \in 1..Len(t) : s[i + j - 1] = t[j]

From(s, i) == SubSeq(s, i, Len(s))

\* str.split(c)
RECURSIVE Split(_, _)
Split(s, c) ==
    LET k == Find(s, c)
    IN IF k = 0 THEN <<s>>
       ELSE <<SubSeq(s, 1, k - 1)>> \o Split(From(s, k + 1), c)

----------------------------------------------------------------------------
(* The part of Python 2's re module that mirror rules use: literal         *)
(* characters, "." and a starred single character, matched greedily with   *)
(* backtracking.                                                           *)

AtomMatch(a, c) == a = "." \/ a = c

\* the longest run of characters from position i of s which atom a matches
RECURSIVE RunLen(_, _, _)
RunLen(a, s, i) ==
    IF i <= Len(s) /\ AtomMatch(a, s[i]) THEN 1 + RunLen(a, s, i + 1) ELSE 0

\* The position after the match of p[k..] that starts at position i of s as
\* the backtracking matcher finds it, 0 when there is none.
RECURSIVE ReMatchEnd(_, _, _, _)
ReMatchEnd(p, k, s, i) ==
    IF k > Len(p) THEN i
    ELSE IF k < Len(p) /\ p[k + 1] = "*"
         THEN LET run  == RunLen(p[k], s, i)
                  ends == {j \in i..(i + run) : ReMatchEnd(p, k + 2, s, j) # 0}
              IN IF ends = {} THEN 0
                 ELSE ReMatchEnd(p, k + 2, s, SetMax(ends))
         ELSE IF i <= Len(s) /\ AtomMatch(p[k], s[i])
              THEN ReMatchEnd(p, k + 1, s, i + 1)
              ELSE 0

\* re.match(p, s): a match anchored at the start of s (not at its end)
re_match(p, s) == ReMatchEnd(p, 1, s, 1) # 0

\* re.sub(p, r, s) of Python 2: every leftmost non-overlapping match is
\* replaced; an empty match right after the previous match is ignored.
\* start: where the next search begins; i: the text copied so far ends
\* before i; n: whether a replacement was made already.
RECURSIVE ReSubFrom(_, _, _, _, _, _)
ReSubFrom(p, r, s, start, i, n) ==
    LET found == {b \in start..(Len(s) + 1) : ReMatchEnd(p, 1, s, b) # 0}
    IN IF found = {} THEN From(s, i)
       ELSE LET b == SetMin(found)
                e == ReMatchEnd(p, 1, s, b)
            IN IF i = b /\ b = e /\ n
               THEN ReSubFrom(p, r, s, e + 1, i, n)
               ELSE SubSeq(s, i, b - 1) \o r
                      \o ReSubFrom(p, r, s, IF e = b THEN e + 1 ELSE e, e, TRUE)

re_sub(p, r, s) == ReSubFrom(p, r, s, 1, 1, FALSE)

----------------------------------------------------------------------------
(* os.path                                                                  *)

basename(p) == From(p, RFind(p, "/") + 1)

\* the head of p with its trailing slashes stripped unless it is all slashes
RECURSIVE RStripSlash(_)
RStripSlash(h) ==
    IF h # <<>> /\ h[Len(h)] = "/" /\ \E i \in 1..Len(h) : h[i] # "/"
    THEN RStripSlash(SubSeq(h, 1, Len(h) - 1))
    ELSE h

dirname(p) == RStripSlash(SubSeq(p, 1, RFind(p, "/")))

join(a, b) ==
    IF b # <<>> /\ b[1] = "/" THEN b
    ELSE IF a = <<>> \/ a[Len(a)] = "/" THEN a \o b
    ELSE a \o <<"/">> \o b

----------------------------------------------------------------------------
(* URI codec                                                                *)

\* The characters of a segment up to its first ";" (the regex class [^;]+)
UpToSemi(s) ==
    LET k == Find(s, ";") IN IF k = 0 THEN s ELSE SubSeq(s, 1, k - 1)

\* dict built by "for s in parm.split(';'): s1, s2 = s.split('='); p[s1] = s2":
\* a later pair overwrites an earlier one with the same key
RECURSIVE ParmDict(_)
ParmDict(segs) ==
    IF segs = <<>> THEN <<>>
    ELSE LET kv   == Split(segs[Len(segs)], "=")
             rest == ParmDict(SubSeq(segs, 1, Len(segs) - 1))
         IN IF \E i \in 1..Len(rest) : rest[i][1] = kv[1]
            THEN [i \in 1..Len(rest) |->
                     IF rest[i][1] = kv[1] THEN <<kv[1], kv[2]>> ELSE rest[i]]
            ELSE Append(rest, <<kv[1], kv[2]>>)

Decoded(type, host, path, user, pswd, parm) ==
    [err |-> "none", type |-> type, host |-> host, path |-> path,
     user |-> user, pswd |-> pswd, parm |-> parm]

Raised(e) ==
    [err |-> e, type |-> <<>>, host |-> <<>>, path |-> <<>>,
     user |-> <<>>, pswd |-> <<>>, parm |-> <<>>]

\* decodeurl, in the order the code computes:
\* (?P<type>[^:]*)://((?P<user>.+)@)?(?P<location>[^;]+)(;(?P<parm>.*))?
\* The dict of parameters is kept as the sequence of its (key, value) pairs.

\* the fields, once the groups of the regular expression are known: user is
\* split by (?P<user>[^:]+)(:?(?P<pswd>.*)) at its first colon
DecodeFields(type, userg, location, parm, colon) ==
    LET locidx == Find(location, "/")
        split  == locidx # 0 /\ type # <<"f", "i", "l", "e">>
        segs   == Split(parm, ";")
    IN IF userg # <<>> /\ colon = 1 THEN Raised("UnboundLocalError")
       ELSE IF parm # <<>> /\ \E i \in 1..Len(segs) : Len(Split(segs[i], "=")) # 2
       THEN Raised("ValueError")
       ELSE Decoded(type,
                    IF split THEN SubSeq(location, 1, locidx - 1) ELSE <<>>,
                    IF split THEN From(location, locidx) ELSE location,
                    IF colon = 0 THEN userg ELSE SubSeq(userg, 1, colon - 1),
                    IF colon = 0 THEN <<>> ELSE From(userg, colon + 1),
                    IF parm # <<>> THEN ParmDict(segs) ELSE <<>>)

\* location is the text before the first ";" of tail, parm the text after it
DecodeLocation(type, userg, tail, location) ==
    IF location = <<>> THEN Raised("MalformedUrl")
    ELSE DecodeFields(type, userg, location, From(tail, Len(location) + 2),
                      Find(userg, ":"))

\* at: where the greedy (.+)@ ends, 0 when the group does not take part
DecodeUser(type, rest, at) ==
    DecodeLocation(type, SubSeq(rest, 1, at - 1), From(rest, at + 1),
                   UpToSemi(From(rest, at + 1)))

\* the last "@" that leaves a location after it, 0 when there is none
LastAt(rest) ==
    LET ats == {j \in 2..(Len(rest) - 1) : rest[j] = "@" /\ rest[j + 1] # ";"}
    IN IF ats = {} THEN 0 ELSE SetMax(ats)

DecodeScheme(url, k) ==
    IF k = 0 \/ ~StartsAt(url, k, <<":", "/", "/">>) THEN Raised("MalformedUrl")
    ELSE DecodeUser(SubSeq(url, 1, k - 1), From(url, k + 3), LastAt(From(url, k + 3)))

decodeurl(url) == DecodeScheme(url, Find(url, ":"))

RECURSIVE EncodeParms(_)
EncodeParms(p) ==
    IF p = <<>> THEN <<>>
    ELSE <<";">> \o p[1][1] \o <<"=">> \o p[1][2] \o EncodeParms(Tail(p))

\* encodeurl: the encoded string, or the exception raised
encodeurl(d) ==
    LET isfile == d.type = <<"f", "i", "l", "e">>
    IN IF d.path = <<>> THEN [err |-> "MissingParameterError", url |-> <<>>]
       ELSE IF d.type = <<>> THEN [err |-> "MissingParameterError", url |-> <<>>]
       ELSE [err |-> "none",
             url |-> d.type \o <<":", "/", "/">>
                     \o (IF d.user # <<>> /\ ~isfile
                         THEN d.user
                              \o (IF d.pswd # <<>> THEN <<":">> \o d.pswd ELSE <<>>)
                              \o <<"@">>
                         ELSE <<>>)
                     \o (IF d.host # <<>> /\ ~isfile THEN d.host ELSE <<>>)
                     \o d.path
                     \o EncodeParms(d.parm)]

----------------------------------------------------------------------------
(* The datastore d, the method registry and the per-URI record FetchData    *)
(*                                                                         *)
(* d is the record of the configuration values the code reads with         *)
(* bb.data.getVar: DL_DIR, PREMIRRORS and MIRRORS (as mirror_from_string   *)
(* parses them: a sequence of <<find, replace>> pairs), and the expected   *)
(* checksums SRC_URI[md5sum] and SRC_URI[sha256sum].                       *)

\* The registered backends, in registration order (local, wget and git of
\* the twelve: the others claim further schemes in the same way).
methods == <<"local", "wget", "git">>

\* m.supports(url, ud, d): each backend claims URIs by their scheme
supports(m, type) ==
    CASE m = "local" -> type = <<"f", "i", "l", "e">>
      [] m = "wget"  -> type \in {<<"h", "t", "t", "p">>, <<"f", "t", "p">>}
      [] m = "git"   -> type = <<"g", "i", "t">>
      [] OTHER       -> FALSE

\* m.urldata_init sets ud.localfile: the plain-download and local backends
\* name the local file after the last path segment; an SCM checkout has no
\* single local file
urldata_init_localfile(m, path) ==
    IF m \in {"local", "wget"} THEN basename(path) ELSE <<>>

\* FetchMethod.localpath
localpath_method(d, localfile) == join(d.DL_DIR, localfile)

NoData == [nodata |-> TRUE]

\* dict lookup p.get(key), None when absent
ParmGet(p, key) ==
    IF \E i \in 1..Len(p) : p[i][1] = key
    THEN p[CHOOSE i \in 1..Len(p) : p[i][1] = key][2]
    ELSE None

\* FetchData.__init__ from the choice of the local path on: donestamp and
\* lockfile are set when there is a local file and a local path
FetchDataPaths(url, d, dec, m, localfile, lp) ==
    LET stamped  == localfile # <<>> /\ ~Falsy(lp)
        basepath == join(d.DL_DIR, basename(lp))
    IN [err |-> "none", url |-> url, type |-> dec.type, host |-> dec.host,
        path |-> dec.path, user |-> dec.user, pswd |-> dec.pswd,
        parm |-> dec.parm, method |-> m, localfile |-> localfile,
        localpath |-> lp,
        donestamp |-> IF stamped THEN basepath \o <<".", "d", "o", "n", "e">>
                      ELSE None,
        lockfile |-> IF stamped THEN basepath \o <<".", "l", "o", "c", "k">>
                     ELSE None,
        md5_expected |-> d.md5sum, sha256_expected |-> d.sha256sum]

\* a "localpath" parameter wins over the backend's local path
FetchDataLocal(url, d, dec, m, localfile, lpparm) ==
    FetchDataPaths(url, d, dec, m, localfile,
                   IF lpparm # None THEN lpparm
                   ELSE IF localfile # <<>> THEN localpath_method(d, localfile)
                   ELSE None)

\* FetchData.__init__ with a loop that does not stop at the first backend
\* that supports the URL
FetchDataMethodLast(url, d, dec, ms) ==
    IF dec.err # "none" THEN [err |-> dec.err]
    ELSE IF ms = {} THEN [err |-> "NoMethodError"]
    ELSE FetchDataLocal(url, d, dec, methods[SetMax(ms)],
                        urldata_init_localfile(methods[SetMax(ms)], dec.path),
                        ParmGet(dec.parm, <<"l", "o", "c", "a", "l", "p", "a", "t", "h">>))

\* ms: the registered backends that support the URL; the first is bound
FetchDataMethod(url, d, dec, ms) ==
    IF dec.err # "none" THEN [err |-> dec.err]
    ELSE IF ms = {} THEN [err |-> "NoMethodError"]
    ELSE FetchDataLocal(url, d, dec, methods[SetMin(ms)],
                        urldata_init_localfile(methods[SetMin(ms)], dec.path),
                        ParmGet(dec.parm, <<"l", "o", "c", "a", "l", "p", "a", "t", "h">>))

FetchDataDecoded(url, d, dec) ==
    FetchDataMethod(url, d, dec,
                    {i \in 1..Len(methods) : supports(methods[i], dec.type)})

\* FetchData.__init__: the record, or the exception raised (err)
FetchData(url, d) == FetchDataDecoded(url, d, decodeurl(url))

\* FetchData.setup_localpath
setup_localpath(ud, d) ==
    IF Falsy(ud.localpath)
    THEN [ud EXCEPT !.localpath = localpath_method(d, ud.localfile)]
    ELSE ud

LocalpathOf(ud, d) ==
    IF ud.err # "none" THEN [err |-> ud.err, path |-> None]
    ELSE [err |-> "none", path |-> setup_localpath(ud, d).localpath]

\* bb.fetch2.localpath(url, d): Fetch([url], d).localpath(url)
localpath(url, d) == LocalpathOf(FetchData(url, d), d)

----------------------------------------------------------------------------
(* uri_replace                                                              *)

\* list.index(x): the first position that holds a value equal to x
ListIndex(lst, x) == SetMin({j \in 1..Len(lst) : lst[j] = x})

\* The loop of uri_replace from the j-th string component of the find
\* pattern on; res is result_decoded so far.  U, F, R are the string
\* components of the decoded uri, find pattern and replacement.
RECURSIVE ReplaceFrom(_, _, _, _, _, _, _, _)

\* the path was substituted and d is set: its basename becomes that of the
\* local path lfn of the original URI
ReplacePath(uri, parm, U, F, R, d, j, res, sub, lfn) ==
    IF lfn.err # "none" THEN [err |-> lfn.err, url |-> <<>>]
    ELSE ReplaceFrom(uri, parm, U, F, R, d, j + 1,
                     [res EXCEPT ![3] = IF Falsy(lfn.path) THEN sub
                                        ELSE join(dirname(sub), basename(lfn.path))])

\* component loc matched: sub is the substituted text
ReplaceSub(uri, parm, U, F, R, d, j, res, loc, sub) ==
    IF loc = 3 /\ d # NoData
    THEN ReplacePath(uri, parm, U, F, R, d, j, res, sub, localpath(uri, d))
    ELSE ReplaceFrom(uri, parm, U, F, R, d, j + 1, [res EXCEPT ![loc] = sub])

\* loc: the first position of the find pattern that holds F[j]
ReplaceAt(uri, parm, U, F, R, d, j, res, loc) ==
    IF ~re_match(F[j], U[loc]) THEN [err |-> "none", url |-> uri]
    ELSE ReplaceSub(uri, parm, U, F, R, d, j, res, loc, re_sub(F[j], R[loc], U[loc]))

ReplaceFrom(uri, parm, U, F, R, d, j, res) ==
    IF j > Len(F)
    THEN encodeurl(Decoded(res[1], res[2], res[3], res[4], res[5], parm))
    ELSE ReplaceAt(uri, parm, U, F, R, d, j, res, ListIndex(F, F[j]))

Components(dec) == <<dec.type, dec.host, dec.path, dec.user, dec.pswd>>

UriReplaceDecoded(uri, ud, fd, rd, d) ==
    IF ud.err # "none" THEN [err |-> ud.err, url |-> <<>>]
    ELSE IF fd.err # "none" THEN [err |-> fd.err, url |-> <<>>]
    ELSE IF rd.err # "none" THEN [err |-> rd.err, url |-> <<>>]
    ELSE ReplaceFrom(uri, ud.parm, Components(ud), Components(fd),
                     Components(rd), d, 1, <<<<>>, <<>>, <<>>, <<>>, <<>>>>)

\* uri_replace(uri, uri_find, uri_replace, d): the rewritten URI (url), or
\* the exception raised (err)
uri_replace(uri, find, replace, d) ==
    UriReplaceDecoded(uri, decodeurl(uri), decodeurl(find), decodeurl(replace), d)

----------------------------------------------------------------------------
(* The file system: a function from the paths that exist to what is there, *)
(* a regular file with its data or a symbolic link.  The data of an        *)
(* artifact is "good" when its digests are the declared ones and "bad"     *)
(* otherwise (a corrupt, truncated or substituted file).                   *)

File(data) == [kind |-> "file", data |-> data]

Link(to) == [kind |-> "link", to |-> to]

\* a bound on the chain of symbolic links followed (the kernel's ELOOP)
MaxLinks == 3

\* The regular file that path p names, following links; None when there is
\* none (absent, dangling or looping).
RECURSIVE Resolve(_, _, _)
Resolve(fs, p, n) ==
    IF p \notin DOMAIN fs \/ n > MaxLinks THEN None
    ELSE IF fs[p].kind = "file" THEN p
    ELSE Resolve(fs, join(dirname(p), fs[p].to), n + 1)

\* os.path.exists(p) and os.access(p, os.R_OK)
Exists(fs, p) == ~Falsy(p) /\ Resolve(fs, p, 0) # None

\* what the backend leaves at path p: it replaces whatever was there
WriteFile(fs, p, data) ==
    [q \in DOMAIN fs \cup {p} |-> IF q = p THEN File(data) ELSE fs[q]]

\* bb.utils.remove(p): unlink p if it is there
Remove(fs, p) == [q \in DOMAIN fs \ {p} |-> fs[q]]

\* os.symlink(result, target)
Symlink(fs, result, target) ==
    [q \in DOMAIN fs \cup {target} |-> IF q = target THEN Link(result) ELSE fs[q]]

\* a path as the operating system resolves it from working directory c
Abs(c, p) == IF p # <<>> /\ p[1] = "/" THEN p ELSE join(c, p)

\* os.path.exists(p) in a process whose working directory is c
ExistsAt(fs, c, p) == ~Falsy(p) /\ Exists(fs, Abs(c, p))

\* download_update(result, target) in a process whose working directory is c
download_update(fs, c, result, target) ==
    IF ExistsAt(fs, c, target) THEN fs
    ELSE IF Falsy(result) \/ ~ExistsAt(fs, c, result) THEN fs
    ELSE IF target # result THEN Symlink(fs, result, Abs(c, target))
    ELSE fs

----------------------------------------------------------------------------
(* Backends.  What a backend's download or checkstatus does is not decided *)
(* by this module: every call draws its outcome from the sets below.       *)

\* m.download(url, ud, d) followed by the optional m.build_mirror_data:
\* the data of the artifact it leaves ("good", "bad"), a return that leaves
\* no file ("nofile"), or the exception raised.  NoMethodError is what
\* FetchMethod.download itself raises.
DownloadOutcomes ==
    {"good", "bad", "nofile", "FetchError", "MD5SumError", "SHA256SumError",
     "MissingParameterError", "NoMethodError"}

\* m.checkstatus(url, ud, d): its truth value, or the exception raised
CheckOutcomes == {"true", "false", "FetchError", "NoMethodError"}

IsError(o) == o \notin {"good", "bad", "nofile", "true", "false"}

\* isinstance(e, cls) for the exception classes of the module:
\* SHA256SumError derives from MD5SumError
IsInstance(e, cls) == e = cls \/ (e = "SHA256SumError" /\ cls = "MD5SumError")

\* The file system after a backend's download to path lp ended with outcome
\* o: a failed transfer (FetchError) leaves a partial file, a checksum error
\* is raised over the complete but wrong file.
AfterDownload(fs, lp, o) ==
    CASE o = "good" -> WriteFile(fs, lp, "good")
      [] o \in {"bad", "FetchError", "MD5SumError", "SHA256SumError"}
                    -> WriteFile(fs, lp, "bad")
      [] OTHER      -> fs

True == <<"True">>

----------------------------------------------------------------------------
(* try_mirrors                                                              *)

Event(k, op, uri) == [rule |-> k, op |-> op, uri |-> uri]

TMResult(ret, err, fs, log) == [ret |-> ret, err |-> err, fs |-> fs, log |-> log]

MirrorCaughtFetchErrorOnly(e) == IsInstance(e, "FetchError")

\* the exceptions a mirror candidate may raise without ending the search
MirrorCaught(e) ==
    \/ IsInstance(e, "MissingParameterError")
    \/ IsInstance(e, "FetchError")
    \/ IsInstance(e, "MD5SumError")

\* the rewrite left the URI as it was (the test "newuri != uri" failed)
NotRewrittenAlways(newuri, uri) == FALSE

NotRewritten(newuri, uri) == newuri = uri

\* The for loop of try_mirrors from rule k on.  oracle[k] is the outcome of
\* the backend call made for rule k, if one is made; log lists what was done.
RECURSIVE TryRules(_, _, _, _, _, _, _, _)

\* the rest of the loop after rule k did op on newuri
TryNext(d, uri, mirrors, check, k, fs, oracle, log, op, newuri) ==
    TryRules(d, uri, mirrors, check, k + 1, fs, oracle,
             Append(log, Event(k, op, newuri)))

\* the backend call for candidate newuri, whose local path is lp, ends with o
TryBackend(d, uri, mirrors, check, k, fs, oracle, log, newuri, lp, o) ==
    IF check
    THEN IF o = "true"
         THEN TMResult(True, "none", fs, Append(log, Event(k, "checkstatus", newuri)))
         ELSE IF o = "false"
         THEN TryNext(d, uri, mirrors, check, k, fs, oracle, log, "checkstatus", newuri)
         ELSE IF MirrorCaught(o)
         THEN TryNext(d, uri, mirrors, check, k, Remove(fs, lp), oracle, log,
                      "checkstatus", newuri)
         ELSE TMResult(None, o, fs, Append(log, Event(k, "checkstatus", newuri)))
    ELSE IF ~IsError(o)
         THEN TMResult(lp, "none", AfterDownload(fs, lp, o),
                       Append(log, Event(k, "download", newuri)))
         ELSE IF MirrorCaught(o)
         THEN TryNext(d, uri, mirrors, check, k, Remove(AfterDownload(fs, lp, o), lp),
                      oracle, log, "download", newuri)
         ELSE TMResult(None, o, AfterDownload(fs, lp, o),
                       Append(log, Event(k, "download", newuri)))

\* ud is FetchData(newuri, ld), or the exception it raised
TryCandidate(d, uri, mirrors, check, k, fs, oracle, log, newuri, ud) ==
    IF ud.err = "NoMethodError"
    THEN TryNext(d, uri, mirrors, check, k, fs, oracle, log, "nomethod", newuri)
    ELSE IF ud.err # "none" THEN TMResult(None, ud.err, fs, log)
    ELSE TryBackend(d, uri, mirrors, check, k, fs, oracle, log, newuri,
                    setup_localpath(ud, d).localpath, oracle[k])

\* newuri is uri_replace(uri, find, replace, ld), or the exception it raised
TryRule(d, uri, mirrors, check, k, fs, oracle, log, newuri) ==
    IF newuri.err # "none" THEN TMResult(None, newuri.err, fs, log)
    ELSE IF NotRewritten(newuri.url, uri)
    THEN TryNext(d, uri, mirrors, check, k, fs, oracle, log, "same", newuri.url)
    ELSE TryCandidate(d, uri, mirrors, check, k, fs, oracle, log, newuri.url,
                      FetchData(newuri.url, d))

TryRules(d, uri, mirrors, check, k, fs, oracle, log) ==
    IF k > Len(mirrors) THEN TMResult(None, "none", fs, log)
    ELSE TryRule(d, uri, mirrors, check, k, fs, oracle, log,
                 uri_replace(uri, mirrors[k][1], mirrors[k][2], d))

\* try_mirrors taking the short cut whenever the file is there
try_mirrors_unforced(d, uri, mirrors, check, force, fs, oracle) ==
    LET fpath == join(d.DL_DIR, basename(uri))
    IN IF ~check /\ Exists(fs, fpath)
       THEN TMResult(fpath, "none", fs, <<>>)
       ELSE TryRules(d, uri, mirrors, check, 1, fs, oracle, <<>>)

try_mirrors_from_second(d, uri, mirrors, check, force, fs, oracle) ==
    LET fpath == join(d.DL_DIR, basename(uri))
    IN IF ~check /\ Exists(fs, fpath) /\ ~force
       THEN TMResult(fpath, "none", fs, <<>>)
       ELSE TryRules(d, uri, mirrors, check, 2, fs, oracle, <<>>)

\* try_mirrors(d, uri, mirrors, check, force) on file system fs
try_mirrors(d, uri, mirrors, check, force, fs, oracle) ==
    LET fpath == join(d.DL_DIR, basename(uri))
    IN IF ~check /\ Exists(fs, fpath) /\ ~force
       THEN TMResult(fpath, "none", fs, <<>>)
       ELSE TryRules(d, uri, mirrors, check, 1, fs, oracle, <<>>)

----------------------------------------------------------------------------
(* Checksums and the premirror test                                         *)

\* bb.utils.md5_file, bb.utils.sha256_file: a digest of the file's content,
\* None when there is no file to read
Digest(alg, fs, p) == IF Resolve(fs, p, 0) = None THEN None
                      ELSE <<alg, fs[Resolve(fs, p, 0)].data>>

\* verify_checksum without the test of ud.type
verify_checksum_of_any_type(fs, ud, d) ==
    IF Digest("md5", fs, ud.localpath) = None THEN "IOError"
    ELSE IF ud.md5_expected = None \/ ud.sha256_expected = None
    THEN IF d.BB_STRICT_CHECKSUM = <<"1">> THEN "FetchError" ELSE "none"
    ELSE IF ud.md5_expected # Digest("md5", fs, ud.localpath) THEN "MD5SumError"
    ELSE IF ud.sha256_expected # Digest("sha256", fs, ud.localpath)
    THEN "SHA256SumError"
    ELSE "none"

\* verify_checksum(u, ud, d): the exception it raises, "none" when it returns
verify_checksum(fs, ud, d) ==
    IF ud.type \notin {<<"h", "t", "t", "p">>, <<"h", "t", "t", "p", "s">>,
                       <<"f", "t", "p">>, <<"f", "t", "p", "s">>}
    THEN "none"
    ELSE IF Digest("md5", fs, ud.localpath) = None THEN "IOError"
    ELSE IF ud.md5_expected = None \/ ud.sha256_expected = None
    THEN IF d.BB_STRICT_CHECKSUM = <<"1">> THEN "FetchError" ELSE "none"
    ELSE IF ud.md5_expected # Digest("md5", fs, ud.localpath) THEN "MD5SumError"
    ELSE IF ud.sha256_expected # Digest("sha256", fs, ud.localpath)
    THEN "SHA256SumError"
    ELSE "none"

\* the arguments of the exception verify_checksum raises: path, wanted, got
ChecksumArgs(err, fs, ud) ==
    IF err = "MD5SumError"
    THEN <<ud.localpath, ud.md5_expected, Digest("md5", fs, ud.localpath)>>
    ELSE IF err = "SHA256SumError"
    THEN <<ud.localpath, ud.sha256_expected, Digest("sha256", fs, ud.localpath)>>
    ELSE <<>>

\* FetchMethod.try_premirror, forced being what forcefetch answered
try_premirror(fs, c, urldata, forced) ==
    IF forced THEN TRUE
    ELSE IF Exists(fs, urldata.donestamp) /\ ExistsAt(fs, c, urldata.localfile)
    THEN FALSE
    ELSE TRUE

----------------------------------------------------------------------------
(* Fetch.checkstatus                                                        *)

\* how the check of one URL ended: the exception raised (err), what the
\* backend's own check did ("none": it was not asked) and whether the general
\* mirrors were consulted
UrlChecked(err, fs, backend, consulted) ==
    [err |-> err, fs |-> fs, backend |-> backend, mirrors |-> consulted]

\* r is what try_mirrors returned or raised for MIRRORS; if not ret: raise
AfterCheckMirrors(r, o) ==
    IF r.err # "none" THEN UrlChecked(r.err, r.fs, o, TRUE)
    ELSE UrlChecked(IF Falsy(r.ret) THEN "FetchError" ELSE "none", r.fs, o, TRUE)

\* ret = m.checkstatus(u, ud, self.d) ended with o; except: the mirrors
CheckBackend(d, u, mirrors, fs, o, mo) ==
    IF ~IsError(o)
    THEN UrlChecked(IF o = "true" THEN "none" ELSE "FetchError", fs, o, FALSE)
    ELSE AfterCheckMirrors(try_mirrors(d, u, mirrors, TRUE, FALSE, fs, mo), o)

\* r is what try_mirrors returned or raised for PREMIRRORS
AfterCheckPremirrors(d, u, mirrors, r, o, mo) ==
    IF r.err # "none" THEN UrlChecked(r.err, r.fs, "none", FALSE)
    ELSE IF ~Falsy(r.ret) THEN UrlChecked("none", r.fs, "none", FALSE)
    ELSE CheckBackend(d, u, mirrors, r.fs, o, mo)

\* the body of the for loop of Fetch.checkstatus for URL u; po, o and mo
\* are what the backends of the premirror candidates, of u and of the mirror
\* candidates answer
CheckUrl(d, u, premirrors, mirrors, fs, po, o, mo) ==
    AfterCheckPremirrors(d, u, mirrors,
                         try_mirrors(d, u, premirrors, TRUE, FALSE, fs, po), o, mo)

\* the for loop of Fetch.checkstatus from the k-th URL on
RECURSIVE CheckUrls(_, _, _, _, _, _, _, _)

\* c is how the check of the k-th URL ended
CheckedUrl(d, urls, premirrors, mirrors, k, oracle, log, c) ==
    IF c.err # "none"
    THEN [err |-> c.err, at |-> k, fs |-> c.fs,
          log |-> Append(log, [backend |-> c.backend, mirrors |-> c.mirrors])]
    ELSE CheckUrls(d, urls, premirrors, mirrors, k + 1, c.fs, oracle,
                   Append(log, [backend |-> c.backend, mirrors |-> c.mirrors]))

CheckUrls(d, urls, premirrors, mirrors, k, fs, oracle, log) ==
    IF k > Len(urls) THEN [err |-> "none", at |-> 0, fs |-> fs, log |-> log]
    ELSE CheckedUrl(d, urls, premirrors, mirrors, k, oracle, log,
                    CheckUrl(d, urls[k], premirrors, mirrors, fs,
                             <<oracle[k].premirror>>, oracle[k].backend,
                             <<oracle[k].mirror>>))

\* Fetch.checkstatus(urls)
checkstatus(d, urls, premirrors, mirrors, fs, oracle) ==
    CheckUrls(d, urls, premirrors, mirrors, 1, fs, oracle, <<>>)

----------------------------------------------------------------------------
(* Sortable revisions.  The counts are kept as the code keeps them: strings *)
(* of decimal digits in the persistent store, integers when incremented.    *)

Digits == <<"0", "1", "2", "3", "4", "5", "6", "7", "8", "9">>

\* str(n) of an integer n >= 0
RECURSIVE str(_)
str(n) == IF n < 10 THEN <<Digits[n + 1]>>
          ELSE Append(str(n \div 10), Digits[(n % 10) + 1])

IsDigits(s) == s # <<>> /\ \A j \in 1..Len(s) : \E k \in 1..10 : Digits[k] = s[j]

\* int(s) of a string of decimal digits
RECURSIVE int(_)
int(s) == IF s = <<>> THEN 0
          ELSE 10 * int(SubSeq(s, 1, Len(s) - 1))
               + (CHOOSE k \in 0..9 : Digits[k + 1] = s[Len(s)])

\* FetchMethod.localcount_internal_helper(ud, d, name)
localcount_internal_helper(d, name) ==
    IF name # <<>> /\ ~Falsy(d.LOCALCOUNT_name) THEN d.LOCALCOUNT_name
    ELSE d.LOCALCOUNT

\* generate_revision_key: "%s-%s" % (key, PN), the backend's key for a name
\* being the name
generate_revision_key(d, name) == name \o <<"-">> \o d.PN

\* the count before the revisions are compared
FirstCount(d, name, stored) ==
    IF ~Falsy(d.BB_LOCALCOUNT_OVERRIDE) /\ localcount_internal_helper(d, name) # None
    THEN localcount_internal_helper(d, name)
    ELSE IF Falsy(stored) THEN <<"0">> ELSE stored

\* the count recorded when the revision has changed
NextCount(d, m, count) ==
    IF m.buildindex_provided
    THEN IF m.buildindex = None THEN <<"0">> ELSE m.buildindex
    ELSE IF ~Falsy(d.BB_LOCALCOUNT_OVERRIDE) THEN count
    ELSE str(int(count) + 1)

SortableResult(err, out, localcounts) ==
    [err |-> err, out |-> out, localcounts |-> localcounts]

\* the revision differs from the one recorded: both entries are written
RevisionChanged(localcounts, key, latest_rev, count) ==
    SortableResult("none", count \o <<"+">> \o latest_rev,
                   [localcounts EXCEPT ![key] = [rev |-> latest_rev, count |-> count]])

\* if last_rev == latest_rev: return str(count + "+" + latest_rev)
SortableCounted(d, m, localcounts, key, latest_rev, count) ==
    IF localcounts[key].rev = latest_rev
    THEN SortableResult("none", count \o <<"+">> \o latest_rev, localcounts)
    ELSE IF ~m.buildindex_provided /\ Falsy(d.BB_LOCALCOUNT_OVERRIDE)
            /\ ~IsDigits(count)
    THEN SortableResult("ValueError", None, localcounts)
    ELSE RevisionChanged(localcounts, key, latest_rev, NextCount(d, m, count))

\* FetchMethod.sortable_revision for a backend m without _sortable_revision;
\* latest_rev is what m._build_revision answers
sortable_revision(d, m, localcounts, name, latest_rev) ==
    SortableCounted(d, m, localcounts, generate_revision_key(d, name), latest_rev,
                    FirstCount(d, name, localcounts[generate_revision_key(d, name)].count))

----------------------------------------------------------------------------
(* Head revisions.  The persistent store BB_URI_HEADREVS is a function from *)
(* revision keys to the revision recorded, None for a key without an entry. *)

\* check_network_access without the policy
network_access_granted(d) == "none"

\* check_network_access: the exception it raises
check_network_access(d) ==
    IF d.BB_NO_NETWORK = <<"1">> THEN "FetchError" ELSE "none"

\* what a backend's _latest_revision does: the exception or the revision,
\* and whether it contacted upstream
Answer(err, rev, contacted) == [err |-> err, rev |-> rev, contacted |-> contacted]

\* a backend's _latest_revision: it checks the network policy before it
\* contacts upstream, and returns the head upstream has
backend_latest_revision(d, head) ==
    IF check_network_access(d) # "none"
    THEN Answer(check_network_access(d), None, FALSE)
    ELSE Answer("none", head, TRUE)

\* how a revision lookup ends: the revision or the exception, the store
\* afterwards, whether the store was read, whether the backend was asked
\* and whether upstream was contacted
HeadResult(err, rev, revs, read, queried, contacted) ==
    [err |-> err, rev |-> rev, revs |-> revs, read |-> read,
     queried |-> queried, contacted |-> contacted]

\* revs[key] = rev = self._latest_revision(...): nothing is stored when the
\* backend raises
LatestQueried(revs, key, answer) ==
    IF answer.err # "none"
    THEN HeadResult(answer.err, None, revs, TRUE, TRUE, answer.contacted)
    ELSE HeadResult("none", answer.rev, [revs EXCEPT ![key] = answer.rev], TRUE,
                    TRUE, answer.contacted)

\* latest_revision without the store: every call asks the backend
LatestUncached(revs, key, answer) == LatestQueried(revs, key, answer)

\* latest_revision once the key is known
LatestCached(revs, key, answer) ==
    IF revs[key] # None
    THEN HeadResult("none", revs[key], revs, TRUE, FALSE, FALSE)
    ELSE LatestQueried(revs, key, answer)

\* FetchMethod.latest_revision; answer is what self._latest_revision does
\* when it is called
latest_revision(m, d, revs, name, answer) ==
    IF ~m.latest_revision_provided
    THEN HeadResult("ParameterError", None, revs, FALSE, FALSE, FALSE)
    ELSE LatestCached(revs, generate_revision_key(d, name), answer)

\* the policy fetcher_init applies: BB_SRCREV_POLICY or "clear"
srcrev_policy_keeping(d) ==
    IF Falsy(d.BB_SRCREV_POLICY) THEN <<"c", "a", "c", "h", "e">>
    ELSE d.BB_SRCREV_POLICY

srcrev_policy(d) ==
    IF Falsy(d.BB_SRCREV_POLICY) THEN <<"c", "l", "e", "a", "r">>
    ELSE d.BB_SRCREV_POLICY

\* pd['BB_URI_HEADREVS'].items()
Items(revs) == {<<k, revs[k]>> : k \in {q \in DOMAIN revs : revs[q] # None}}

InitResult(err, revs, saved, inited, cleared) ==
    [err |-> err, revs |-> revs, saved |-> saved, inited |-> inited,
     cleared |-> cleared]

\* fetcher_init under a policy: the store and saved_headrevs afterwards, and
\* the backends whose init was called, and whether the store was deleted
InitUnder(policy, revs, saved) ==
    IF policy = <<"c", "a", "c", "h", "e">>
    THEN InitResult("none", revs, saved, {methods[i] : i \in 1..Len(methods)}, FALSE)
    ELSE IF policy = <<"c", "l", "e", "a", "r">>
    THEN InitResult("none", [k \in DOMAIN revs |-> None], Items(revs),
                    {methods[i] : i \in 1..Len(methods)}, TRUE)
    ELSE InitResult("FetchError", revs, saved, {}, FALSE)

fetcher_init(d, revs, saved) == InitUnder(srcrev_policy(d), revs, saved)

CompareResult(err, ret) == [err |-> err, ret |-> ret]

\* the entries items() may list first; None stands for an empty list
FirstItems(revs) == IF Items(revs) = {} THEN {None} ELSE Items(revs)

\* the first turn of the loop "for key in data", key being the pair first:
\* a pair that is not in saved_headrevs returns True; for a pair that is,
\* data2[key] indexes the list of pairs with a pair and raises TypeError
CompareFirst(first, saved) ==
    IF first \notin saved THEN CompareResult("none", TRUE)
    ELSE CompareResult("TypeError", FALSE)

\* fetcher_compare_revisions(d) on the store revs, saved_headrevs being
\* saved, when items() lists the pair first in the first place
fetcher_compare_revisions(revs, saved, first) ==
    IF Items(revs) = {} THEN CompareResult("none", FALSE)
    ELSE CompareFirst(first, saved)

\* 'key' in ud.parm
ParmHas(p, key) == \E i \in 1..Len(p) : p[i][1] = key

\* the revision the datastore configures for a name: SRCREV_<name>_pn-<PN>,
\* then SRCREV_<name>, then SRCREV, a value that is unset or empty passed over
NamedRev(d, name) ==
    IF name = <<>> THEN None
    ELSE IF ~Falsy(d.SRCREV_name_pn) THEN d.SRCREV_name_pn
    ELSE d.SRCREV_name

\* the configured revision without the values for the name
ConfiguredRevGlobal(d, rev) == d.SRCREV

ConfiguredRev(d, rev) == IF Falsy(rev) THEN d.SRCREV ELSE rev

\* srcrev_internal_helper once the configured value is known
SrcrevResolved(m, d, revs, name, answer, rev) ==
    IF rev = <<"I", "N", "V", "A", "L", "I", "D">>
    THEN HeadResult("FetchError", None, revs, FALSE, FALSE, FALSE)
    ELSE IF rev = <<"A", "U", "T", "O", "I", "N", "C">>
    THEN latest_revision(m, d, revs, name, answer)
    ELSE HeadResult("none", rev, revs, FALSE, FALSE, FALSE)

\* srcrev_internal_helper; answer is what the backend's _latest_revision
\* does when it is called
srcrev_internal_helper(parm, m, d, revs, name, answer) ==
    IF ParmHas(parm, <<"r", "e", "v">>)
    THEN HeadResult("none", ParmGet(parm, <<"r", "e", "v">>), revs, FALSE, FALSE, FALSE)
    ELSE IF ParmHas(parm, <<"t", "a", "g">>)
    THEN HeadResult("none", ParmGet(parm, <<"t", "a", "g">>), revs, FALSE, FALSE, FALSE)
    ELSE SrcrevResolved(m, d, revs, name, answer, ConfiguredRev(d, NamedRev(d, name)))

----------------------------------------------------------------------------
(* State.  Each specification below runs one part of the module and leaves *)
(* the variables of the other parts as they are.                           *)

VARIABLES
    tmIn,       \* try_mirrors: the arguments and the file system it starts on
    tmOracle,   \* try_mirrors: the outcome of the backend call of each rule
    tmOut,      \* try_mirrors: what the call returned or raised, and what it did
    fs,         \* the files of the download directory, by absolute path
    cwd,        \* the working directory of the build processes
    locks,      \* the lock handles held: <<process, lock-file path>>
    pc,         \* where each process is in its call
    cur,        \* the locals of the call each process is in
    last,       \* how the last finished call of each process ended
    ud,         \* Fetch.ud: the FetchData of each URL, built by Fetch.__init__
    ckIn,       \* Fetch.checkstatus: the URLs and the file system it starts on
    ckOracle,   \* Fetch.checkstatus: what the backends answer for each URL
    ckOut,      \* Fetch.checkstatus: how the call ended
    localcounts,\* the persistent store BB_URI_LOCALCOUNT
    setup,      \* sortable_revision: the datastore and the backend
    upstream,   \* the revision the backend resolves for each name
    calls,      \* the last calls of sortable_revision, the latest last
    headrevs,   \* the persistent store BB_URI_HEADREVS
    saved_headrevs, \* the module's saved_headrevs
    hconf,      \* head revisions: the datastore and the backend
    heads,      \* the head revision upstream has for each name
    lookups,    \* upstream head lookups made for each key since the last clear
    answers,    \* revisions latest_revision returned for each key since then
    hlast,      \* how the last call of fetcher_init or latest_revision ended
    srIn,       \* srcrev_internal_helper: its arguments
    srOut,      \* srcrev_internal_helper: what it returned or raised
    sumIn,      \* verify_checksum: its arguments and the downloaded file
    sumOut,     \* verify_checksum: how it ended
    uriIn,      \* the URL functions: their arguments
    uriOut,     \* the URL functions: what they returned or raised
    urldata_cache, \* the module's urldata_cache: the dict of each build file
    fetchers,   \* the urls of the Fetch object last built for each build file
    built,      \* how often FetchData was constructed, by build file and URL
    clast       \* how the last call of Fetch or Fetch.localpath ended

tmvars == <<tmIn, tmOracle, tmOut>>

vars == <<fs, cwd, locks, pc, cur, last, ud>>

ckvars == <<ckIn, ckOracle, ckOut>>

revvars == <<localcounts, setup, upstream, calls>>

headvars == <<headrevs, saved_headrevs, hconf, heads, lookups, answers, hlast>>

srvars == <<srIn, srOut>>

sumvars == <<sumIn, sumOut>>

urivars == <<uriIn, uriOut>>

cachevars == <<urldata_cache, fetchers, built, clast>>

purevars == <<srvars, sumvars, urivars>>

besidesMirrors == <<vars, ckvars, revvars, headvars, purevars, cachevars>>

besidesFetch == <<tmvars, ckvars, revvars, headvars, purevars, cachevars>>

besidesCheck == <<tmvars, vars, revvars, headvars, purevars, cachevars>>

besidesRevisions == <<tmvars, vars, ckvars, headvars, purevars, cachevars>>

besidesHeads == <<tmvars, vars, ckvars, revvars, purevars, cachevars>>

besidesSrcrev == <<tmvars, vars, ckvars, revvars, headvars, sumvars, urivars,
                  cachevars>>

besidesSum == <<tmvars, vars, ckvars, revvars, headvars, srvars, urivars,
                  cachevars>>

besidesCache == <<tmvars, vars, ckvars, revvars, headvars, purevars>>

besidesUri == <<tmvars, vars, ckvars, revvars, headvars, srvars, sumvars,
                  cachevars>>

NotCalled == [called |-> FALSE]

NoFiles == [q \in {} |-> File("good")]

\* the variables of a part that does not run
MirrorsAside == tmIn = <<>> /\ tmOracle = <<>> /\ tmOut = NotCalled

FetchAside ==
    /\ fs = NoFiles /\ cwd = <<>> /\ locks = {}
    /\ pc = <<>> /\ cur = <<>> /\ last = <<>> /\ ud = <<>>

CheckAside == ckIn = <<>> /\ ckOracle = <<>> /\ ckOut = NotCalled

RevisionsAside ==
    localcounts = <<>> /\ setup = <<>> /\ upstream = <<>> /\ calls = <<>>

HeadsAside ==
    /\ headrevs = <<>> /\ saved_headrevs = <<>> /\ hconf = <<>> /\ heads = <<>>
    /\ lookups = <<>> /\ answers = <<>> /\ hlast = NotCalled

SrcrevAside == srIn = <<>> /\ srOut = NotCalled

SumAside == sumIn = <<>> /\ sumOut = NotCalled

UriAside == uriIn = <<>> /\ uriOut = NotCalled

CacheAside ==
    urldata_cache = <<>> /\ fetchers = <<>> /\ built = <<>> /\ clast = NotCalled

----------------------------------------------------------------------------
(* Calls of try_mirrors on their own: the inputs are drawn at the start,   *)
(* the call draws what each backend call does.                             *)

DL_DIR == <<"/", "d", "l">>

\* the original URI
MirrorUris == {<<"h", "t", "t", "p", ":", "/", "/", "o", "/", "x">>}

\* (find, replace) rules: an exact mirror, a pattern mirror on another
\* scheme, a rule for another scheme (no match), a rule that rewrites to a
\* scheme no backend claims, and a rule that rewrites the URI to itself
MirrorRules ==
    << <<<<"h", "t", "t", "p", ":", "/", "/", "o", "/", "x">>, <<"h", "t", "t", "p", ":", "/", "/", "m", "/", "x">>>>,
       <<<<"h", "t", "t", "p", ":", "/", "/", ".", "*", "/", ".", "*">>, <<"f", "t", "p", ":", "/", "/", "n", "/", "p", "/">>>>,
       <<<<"f", "t", "p", ":", "/", "/", ".", "*", "/", ".", "*">>, <<"h", "t", "t", "p", ":", "/", "/", "m", "/">>>>,
       <<<<"h", "t", "t", "p", ":", "/", "/", ".", "*", "/", "x">>, <<"s", "v", "n", ":", "/", "/", "s", "/", "x">>>>,
       <<<<"h", "t", "t", "p", ":", "/", "/", "o", "/", "x">>, <<"h", "t", "t", "p", ":", "/", "/", "o", "/", "x">>>> >>

\* the longest mirror list tried
MaxRules == 2

\* the rule lists of at most MaxRules rules, as sequences of rule numbers
RECURSIVE RuleLists(_)
RuleLists(n) ==
    IF n = 0 THEN {<<>>}
    ELSE LET shorter == RuleLists(n - 1)
         IN shorter \cup {Append(l, r) : l \in {x \in shorter : Len(x) = n - 1},
                                         r \in 1..Len(MirrorRules)}

Rules(l) == [k \in 1..Len(l) |-> MirrorRules[l[k]]]

MirrorData == [DL_DIR |-> DL_DIR, md5sum |-> None, sha256sum |-> None]

\* force is read only when the expected download path is readable
MirrorInit ==
    /\ tmOut = NotCalled
    /\ tmOracle = <<>>
    /\ \E uri \in MirrorUris, l \in RuleLists(MaxRules),
          check \in BOOLEAN, force \in BOOLEAN, present \in BOOLEAN :
          /\ force => (present /\ ~check)
          /\ tmIn = [uri |-> uri, mirrors |-> Rules(l), check |-> check,
                     force |-> force,
                     fs |-> IF present
                            THEN WriteFile(NoFiles, join(DL_DIR, basename(uri)), "good")
                            ELSE NoFiles]
    /\ FetchAside /\ CheckAside /\ RevisionsAside
    /\ HeadsAside /\ SrcrevAside /\ SumAside /\ UriAside /\ CacheAside

TryMirrorsCall ==
    /\ tmOut = NotCalled
    /\ \E oracle \in [1..Len(tmIn.mirrors) ->
                        IF tmIn.check THEN CheckOutcomes ELSE DownloadOutcomes] :
          /\ tmOracle' = oracle
          /\ tmOut' = [called |-> TRUE,
                       res |-> try_mirrors(MirrorData, tmIn.uri, tmIn.mirrors,
                                           tmIn.check, tmIn.force, tmIn.fs, oracle)]
    /\ UNCHANGED <<tmIn, besidesMirrors>>

MirrorNext == TryMirrorsCall

SpecMirror == MirrorInit /\ [][MirrorNext]_<<tmvars, besidesMirrors>>

----------------------------------------------------------------------------
(* Properties of try_mirrors                                                *)

TmLog == tmOut.res.log

\* the call took the existing-file short cut
TmShortCut ==
    /\ ~tmIn.check
    /\ ~tmIn.force
    /\ Exists(tmIn.fs, join(DL_DIR, basename(tmIn.uri)))

\* rule i got as far as a backend call
TmBackendCalled(i) == TmLog[i].op \in {"download", "checkstatus"}

\* the candidate of rule i succeeded
TmSucceeded(i) ==
    TmBackendCalled(i) /\ tmOracle[i] \in {"good", "bad", "nofile", "true"}

\* the candidate of rule i raised one of the errors that only eliminate it
TmCaughtError(i) ==
    /\ TmBackendCalled(i)
    /\ tmOracle[i] \in {"FetchError", "MD5SumError", "SHA256SumError",
                        "MissingParameterError"}

\* rule i was skipped or its candidate failed
TmEliminated(i) ==
    \/ TmLog[i].op \in {"same", "nomethod"}
    \/ TmCaughtError(i)
    \/ (TmBackendCalled(i) /\ tmOracle[i] = "false")

\* the local path that FetchData resolves for a candidate URI
TmCandidatePath(uri) == setup_localpath(FetchData(uri, MirrorData), MirrorData).localpath

\* C6: try_mirrors attempts the rules strictly in list order, each at most
\* once; it returns at the first rule whose candidate succeeds and attempts
\* no later rule; it returns None exactly when the existing-file short cut
\* did not apply and every rule was skipped or its candidate failed.
C6_RulesInOrder ==
    tmOut.called =>
        /\ Len(TmLog) <= Len(tmIn.mirrors)
        /\ \A i \in 1..Len(TmLog) : TmLog[i].rule = i
        /\ \A i \in 1..Len(TmLog) :
              TmSucceeded(i) => /\ i = Len(TmLog)
                                /\ tmOut.res.err = "none"
                                /\ tmOut.res.ret # None
        /\ (tmOut.res.err = "none" /\ tmOut.res.ret # None /\ ~TmShortCut)
              => (TmLog # <<>> /\ TmSucceeded(Len(TmLog)))
        /\ (tmOut.res.err = "none" /\ tmOut.res.ret = None)
              <=> /\ ~TmShortCut
                  /\ Len(TmLog) = Len(tmIn.mirrors)
                  /\ \A i \in 1..Len(TmLog) : TmEliminated(i)

\* a call in which the second of two rules succeeded after the first failed
C6_Witness ==
    /\ tmOut.called
    /\ Len(tmIn.mirrors) = 2
    /\ Len(TmLog) = 2
    /\ TmCaughtError(1)
    /\ TmSucceeded(2)
    /\ tmOut.res.ret # None

\* C7: a candidate that fails with FetchError, MD5SumError, SHA256SumError
\* or MissingParameterError does not end the search: the next rule is tried
\* (None is returned after the last), and the candidate's artifact is gone
\* unless a later candidate left a file at the same path.  A candidate with
\* no backend is skipped.  Any other failure is raised by try_mirrors.
C7_CandidateFailures ==
    tmOut.called =>
        \A i \in 1..Len(TmLog) :
           /\ (TmCaughtError(i) \/ TmLog[i].op = "nomethod") =>
                 IF i < Len(tmIn.mirrors) THEN Len(TmLog) > i
                 ELSE tmOut.res.err = "none" /\ tmOut.res.ret = None
           /\ TmCaughtError(i) =>
                 \/ \E j \in (i + 1)..Len(TmLog) :
                       TmLog[j].op = "download" /\ tmOracle[j] \in {"good", "bad"}
                 \/ ~Exists(tmOut.res.fs, TmCandidatePath(TmLog[i].uri))
           /\ (TmBackendCalled(i) /\ tmOracle[i] = "NoMethodError") =>
                 /\ i = Len(TmLog)
                 /\ tmOut.res.err = "NoMethodError"

\* a checksum mismatch of the first candidate, then a candidate without a
\* backend, and the search went on to return None
C7_Witness ==
    /\ tmOut.called
    /\ ~tmIn.check
    /\ Len(TmLog) = 2
    /\ TmCaughtError(1)
    /\ tmOracle[1] = "SHA256SumError"
    /\ TmLog[2].op = "nomethod"
    /\ tmOut.res.err = "none"
    /\ tmOut.res.ret = None
    /\ ~Exists(tmOut.res.fs, TmCandidatePath(TmLog[1].uri))

\* C8: no backend is called on the original URI; a rule whose rewrite is the
\* original URI is skipped; when the backend's download succeeds for a
\* rewritten URI, try_mirrors returns the local path resolved for that URI.
C8_NeverOriginal ==
    tmOut.called =>
        \A i \in 1..Len(TmLog) :
           /\ TmBackendCalled(i) => TmLog[i].uri # tmIn.uri
           /\ TmLog[i].uri = tmIn.uri => TmLog[i].op = "same"
           /\ (TmLog[i].op = "download" /\ TmSucceeded(i)) =>
                 /\ tmOut.res.err = "none"
                 /\ tmOut.res.ret = TmCandidatePath(TmLog[i].uri)

\* the identity rule was skipped and the exact mirror's download succeeded
C8_Witness ==
    /\ tmOut.called
    /\ ~tmIn.check
    /\ Len(TmLog) = 2
    /\ TmLog[1].op = "same"
    /\ TmLog[1].uri = tmIn.uri
    /\ TmLog[2].op = "download"
    /\ TmLog[2].uri = <<"h", "t", "t", "p", ":", "/", "/", "m", "/", "x">>
    /\ tmOracle[2] = "good"
    /\ tmOut.res.ret = <<"/", "d", "l", "/", "x">>

----------------------------------------------------------------------------
(* Fetch.download and Fetch.unpack, run by independent build processes on   *)
(* one download directory.  A step is what a process does between two       *)
(* points where another process can be scheduled in.                        *)

Procs == {"p1", "p2"}

\* SRC_URI: a URL whose backend keeps no local file, and a URL that is
\* downloaded to DL_DIR/x
Urls == << <<"g", "i", "t", ":", "/", "/", "o", "/", "r">>,
           <<"h", "t", "t", "p", ":", "/", "/", "o", "/", "x">> >>

PREMIRRORS == <<MirrorRules[1]>>

MIRRORS == <<MirrorRules[2]>>

\* the datastore: the checksums declared for SRC_URI are those of the
\* content "good"
Data == [DL_DIR |-> DL_DIR, md5sum |-> <<"md5", "good">>,
         sha256sum |-> <<"sha256", "good">>, BB_STRICT_CHECKSUM |-> None]

\* the working directories a build runs in: DL_DIR itself, or elsewhere
WorkDirs == {DL_DIR, <<"/", "w">>}

\* bb.utils.lockfile(name) returns once no other handle locks name
LockFree(l, name) == \A h \in l : h[2] # name

\* os.utime(ud.donestamp, None) returns or raises
UtimeOutcomes == {"ok", "OSError"}

\* FetchMethod.unpack runs an external command
UnpackOutcomes == {"ok", "UnpackError"}

\* the locals of a process that is in no call
NoCall == [op |-> "none", i |-> 0, localpath |-> <<>>, pre |-> <<>>,
           forced |-> FALSE, trace |-> <<>>, created |-> FALSE,
           stamp |-> "none"]

NoResult == [op |-> "none", err |-> "none", i |-> 0, at |-> "idle",
             trace |-> <<>>, created |-> FALSE]

\* ud.setup_localpath(self.d) on the FetchData of the URL a process is at
Ud(p) == setup_localpath(ud[cur[p].i], Data)

Init ==
    /\ fs = NoFiles
    /\ cwd \in WorkDirs
    /\ locks = {}
    /\ pc = [p \in Procs |-> "idle"]
    /\ cur = [p \in Procs |-> NoCall]
    /\ last = [p \in Procs |-> NoResult]
    /\ ud = [i \in 1..Len(Urls) |-> FetchData(Urls[i], Data)]
    /\ MirrorsAside /\ CheckAside /\ RevisionsAside
    /\ HeadsAside /\ SrcrevAside /\ SumAside /\ UriAside /\ CacheAside

\* process p moves on to step l of its call
Goto(p, l) == pc' = [pc EXCEPT ![p] = l]

\* the call of process p ends with exception e ("none": it returns); what
\* it holds stays as it is
Ends(p, e) ==
    /\ pc' = [pc EXCEPT ![p] = "idle"]
    /\ last' = [last EXCEPT ![p] = [op |-> cur[p].op, err |-> e, i |-> cur[p].i,
                                    at |-> pc[p], trace |-> cur[p].trace,
                                    created |-> cur[p].created]]
    /\ cur' = [cur EXCEPT ![p] = NoCall]

\* the for loop goes on to the next URL
NextUrl(p, l) ==
    /\ Goto(p, l)
    /\ cur' = [cur EXCEPT ![p] = [NoCall EXCEPT !.op = cur[p].op,
                                                !.i = cur[p].i + 1]]

\* Fetch.download is called
DownloadBegin(p) ==
    /\ pc[p] = "idle"
    /\ Goto(p, "d_next")
    /\ cur' = [cur EXCEPT ![p] = [NoCall EXCEPT !.op = "download", !.i = 1]]
    /\ last' = [last EXCEPT ![p] = NoResult]
    /\ UNCHANGED <<fs, cwd, locks, ud, besidesFetch>>

\* if not ud.localfile: continue
DownloadSkip(p) ==
    /\ pc[p] = "d_next"
    /\ cur[p].i <= Len(Urls)
    /\ Falsy(Ud(p).localfile)
    /\ NextUrl(p, "d_next")
    /\ UNCHANGED <<fs, cwd, locks, last, ud, besidesFetch>>

\* a process that takes the lock without waiting for it
DownloadLockNoWait(p) ==
    /\ pc[p] = "d_next"
    /\ cur[p].i <= Len(Urls)
    /\ ~Falsy(Ud(p).localfile)
    /\ locks' = locks \cup {<<p, Ud(p).lockfile>>}
    /\ Goto(p, "d_premirror")
    /\ UNCHANGED <<fs, cwd, cur, last, ud, besidesFetch>>

\* lf = bb.utils.lockfile(ud.lockfile)
DownloadLock(p) ==
    /\ pc[p] = "d_next"
    /\ cur[p].i <= Len(Urls)
    /\ ~Falsy(Ud(p).localfile)
    /\ LockFree(locks, Ud(p).lockfile)
    /\ locks' = locks \cup {<<p, Ud(p).lockfile>>}
    /\ Goto(p, "d_premirror")
    /\ UNCHANGED <<fs, cwd, cur, last, ud, besidesFetch>>

\* the premirror or local step gave localpath lp and left the files f
LocalStep(p, u, lp, f, source) ==
    /\ fs' = download_update(f, cwd, lp, u.localpath)
    /\ cur' = [cur EXCEPT ![p].localpath = lp, ![p].pre = lp,
                          ![p].trace = <<source>>]
    /\ Goto(p, "d_backend")
    /\ UNCHANGED last

\* r is what try_mirrors returned or raised for PREMIRRORS
AfterPremirrors(p, u, r) ==
    IF r.err # "none" THEN Ends(p, r.err) /\ fs' = r.fs
    ELSE LocalStep(p, u, r.ret, r.fs, "premirrors")

\* f1, f2: what m.forcefetch answers in try_premirror and for try_mirrors
PremirrorStep(p, u, f1, f2, oracle) ==
    IF try_premirror(fs, cwd, u, f1)
    THEN AfterPremirrors(p, u, try_mirrors(Data, u.url, PREMIRRORS, FALSE, f2,
                                           fs, oracle))
    ELSE LocalStep(p, u, IF ExistsAt(fs, cwd, u.localfile) THEN u.localfile
                         ELSE <<>>, fs, "local")

\* if m.try_premirror(u, ud, self.d): ... elif os.path.exists(ud.localfile):
\* ... download_update(localpath, ud.localpath)
DownloadPremirror(p) ==
    /\ pc[p] = "d_premirror"
    /\ \E f1 \in BOOLEAN, f2 \in BOOLEAN, o \in DownloadOutcomes :
          PremirrorStep(p, Ud(p), f1, f2, <<o>>)
    /\ UNCHANGED <<cwd, locks, ud, besidesFetch>>

BackendWantedWhenMissing(forced, lp) == Falsy(lp)

\* if m.forcefetch(u, ud, self.d) or not localpath
BackendWanted(forced, lp) == forced \/ Falsy(lp)

\* m.download(u, ud, self.d) ended with o and left the files f
AfterBackend(p, u, f3, o, f) ==
    IF ~IsError(o)
    THEN /\ fs' = download_update(f, cwd, u.localpath, u.localpath)
         /\ cur' = [cur EXCEPT ![p].localpath = u.localpath, ![p].forced = f3,
                               ![p].trace = Append(@, "backend")]
         /\ Goto(p, "d_check")
         /\ UNCHANGED last
    ELSE IF IsInstance(o, "FetchError")
    THEN /\ fs' = Remove(f, u.localpath)
         /\ cur' = [cur EXCEPT ![p].forced = f3, ![p].trace = Append(@, "backend")]
         /\ Goto(p, "d_mirrors")
         /\ UNCHANGED last
    ELSE Ends(p, o) /\ fs' = f

\* f3: what m.forcefetch answers when it is tested again
BackendStep(p, u, f3, o) ==
    IF BackendWanted(f3, cur[p].localpath)
    THEN AfterBackend(p, u, f3, o, AfterDownload(fs, u.localpath, o))
    ELSE /\ cur' = [cur EXCEPT ![p].forced = f3]
         /\ Goto(p, "d_check")
         /\ UNCHANGED <<fs, last>>

\* the backend's own download, and the removal of an incomplete file when
\* it raises FetchError
DownloadBackend(p) ==
    /\ pc[p] = "d_backend"
    /\ \E f3 \in BOOLEAN, o \in DownloadOutcomes : BackendStep(p, Ud(p), f3, o)
    /\ UNCHANGED <<cwd, locks, ud, besidesFetch>>

\* r is what try_mirrors returned or raised for MIRRORS
AfterMirrors(p, r) ==
    IF r.err # "none" THEN Ends(p, r.err) /\ fs' = r.fs
    ELSE /\ fs' = r.fs
         /\ cur' = [cur EXCEPT ![p].localpath = r.ret,
                               ![p].trace = Append(@, "mirrors")]
         /\ Goto(p, "d_check")
         /\ UNCHANGED last

\* except FetchError: ... localpath = try_mirrors (self.d, u, mirrors)
DownloadMirrors(p) ==
    /\ pc[p] = "d_mirrors"
    /\ \E o \in DownloadOutcomes :
          AfterMirrors(p, try_mirrors(Data, Ud(p).url, MIRRORS, FALSE, FALSE,
                                      fs, <<o>>))
    /\ UNCHANGED <<cwd, locks, ud, besidesFetch>>

NoArtifactNamed(f, c, lp) == Falsy(lp)

\* not localpath or not os.path.exists(localpath)
NoArtifact(f, c, lp) == Falsy(lp) \/ ~ExistsAt(f, c, lp)

\* if not localpath or not os.path.exists(localpath): raise FetchError(...)
\* download_update(localpath, ud.localpath)
DownloadCheck(p) ==
    /\ pc[p] = "d_check"
    /\ IF NoArtifact(fs, cwd, cur[p].localpath)
       THEN Ends(p, "FetchError") /\ UNCHANGED fs
       ELSE /\ fs' = download_update(fs, cwd, cur[p].localpath, Ud(p).localpath)
            /\ Goto(p, "d_stamp")
            /\ UNCHANGED <<cur, last>>
    /\ UNCHANGED <<cwd, locks, ud, besidesFetch>>

\* a download that creates the done stamp before it verifies
AfterVerifyStamped(p, u, e) ==
    IF e # "none" THEN Ends(p, e) /\ fs' = WriteFile(fs, u.donestamp, "")
    ELSE /\ fs' = WriteFile(fs, u.donestamp, "")
         /\ cur' = [cur EXCEPT ![p].created = TRUE, ![p].stamp = "created"]
         /\ Goto(p, "d_unlock")
         /\ UNCHANGED last

\* e is what verify_checksum raised
AfterVerify(p, u, e) ==
    IF e # "none" THEN Ends(p, e) /\ UNCHANGED fs
    ELSE /\ fs' = WriteFile(fs, u.donestamp, "")
         /\ cur' = [cur EXCEPT ![p].created = TRUE, ![p].stamp = "created"]
         /\ Goto(p, "d_unlock")
         /\ UNCHANGED last

\* the done stamp is there: it is touched, and an exception of os.utime (t)
\* is passed over; it is not there: the checksums are verified
StampStep(p, u, t) ==
    IF Exists(fs, u.donestamp)
    THEN /\ cur' = [cur EXCEPT ![p].stamp = IF t = "ok" THEN "touched"
                                            ELSE "untouched"]
         /\ Goto(p, "d_unlock")
         /\ UNCHANGED <<fs, last>>
    ELSE AfterVerify(p, u, verify_checksum(fs, u, Data))

\* if os.path.exists(ud.donestamp): os.utime(...) else: verify_checksum(...);
\* open(ud.donestamp, 'w').close()
DownloadStamp(p) ==
    /\ pc[p] = "d_stamp"
    /\ \E t \in UtimeOutcomes : StampStep(p, Ud(p), t)
    /\ UNCHANGED <<cwd, locks, ud, besidesFetch>>

\* bb.utils.unlockfile(lf)
DownloadUnlock(p) ==
    /\ pc[p] = "d_unlock"
    /\ locks' = locks \ {<<p, Ud(p).lockfile>>}
    /\ NextUrl(p, "d_next")
    /\ UNCHANGED <<fs, cwd, last, ud, besidesFetch>>

\* the for loop of Fetch.download is over
DownloadReturn(p) ==
    /\ pc[p] = "d_next"
    /\ cur[p].i > Len(Urls)
    /\ Ends(p, "none")
    /\ UNCHANGED <<fs, cwd, locks, ud, besidesFetch>>

\* Fetch.unpack is called
UnpackBegin(p) ==
    /\ pc[p] = "idle"
    /\ Goto(p, "u_next")
    /\ cur' = [cur EXCEPT ![p] = [NoCall EXCEPT !.op = "unpack", !.i = 1]]
    /\ last' = [last EXCEPT ![p] = NoResult]
    /\ UNCHANGED <<fs, cwd, locks, ud, besidesFetch>>

\* bb.data.expand(self.localpath, self.d) is a bound method, never None:
\* no URL is passed over.  if ud.lockfile: lf = bb.utils.lockfile(ud.lockfile)
UnpackLock(p) ==
    /\ pc[p] = "u_next"
    /\ cur[p].i <= Len(Urls)
    /\ IF ~Falsy(Ud(p).lockfile)
       THEN /\ LockFree(locks, Ud(p).lockfile)
            /\ locks' = locks \cup {<<p, Ud(p).lockfile>>}
       ELSE UNCHANGED locks
    /\ Goto(p, "u_run")
    /\ UNCHANGED <<fs, cwd, cur, last, ud, besidesFetch>>

\* ud.method.unpack(ud, root, self.d)
UnpackRun(p) ==
    /\ pc[p] = "u_run"
    /\ \E o \in UnpackOutcomes :
          IF o = "ok" THEN Goto(p, "u_unlock") /\ UNCHANGED <<cur, last>>
          ELSE Ends(p, o)
    /\ UNCHANGED <<fs, cwd, locks, ud, besidesFetch>>

\* if ud.lockfile: bb.utils.unlockfile(lf)
UnpackUnlock(p) ==
    /\ pc[p] = "u_unlock"
    /\ locks' = IF ~Falsy(Ud(p).lockfile) THEN locks \ {<<p, Ud(p).lockfile>>}
                ELSE locks
    /\ NextUrl(p, "u_next")
    /\ UNCHANGED <<fs, cwd, last, ud, besidesFetch>>

\* the for loop of Fetch.unpack is over
UnpackReturn(p) ==
    /\ pc[p] = "u_next"
    /\ cur[p].i > Len(Urls)
    /\ Ends(p, "none")
    /\ UNCHANGED <<fs, cwd, locks, ud, besidesFetch>>

\* the artifact of URL i goes missing from the download directory while no
\* process holds its lock
ArtifactLost(i) ==
    /\ ~Falsy(ud[i].lockfile)
    /\ LockFree(locks, ud[i].lockfile)
    /\ Exists(fs, ud[i].localpath)
    /\ fs' = Remove(fs, ud[i].localpath)
    /\ UNCHANGED <<cwd, locks, pc, cur, last, ud, besidesFetch>>

Next ==
    \/ \E p \in Procs :
          \/ DownloadBegin(p)
          \/ DownloadSkip(p)
          \/ DownloadLock(p)
          \/ DownloadPremirror(p)
          \/ DownloadBackend(p)
          \/ DownloadMirrors(p)
          \/ DownloadCheck(p)
          \/ DownloadStamp(p)
          \/ DownloadUnlock(p)
          \/ DownloadReturn(p)
          \/ UnpackBegin(p)
          \/ UnpackLock(p)
          \/ UnpackRun(p)
          \/ UnpackUnlock(p)
          \/ UnpackReturn(p)
    \/ \E i \in 1..Len(Urls) : ArtifactLost(i)

Spec == Init /\ [][Next]_<<vars, besidesFetch>>

----------------------------------------------------------------------------
(* Calls of Fetch.checkstatus on their own: the URLs are drawn at the      *)
(* start, the call draws what the backends answer.                         *)

\* the lists of URLs checked, as sequences of positions in Urls
CheckLists == {<<1>>, <<2>>, <<1, 2>>}

CheckInit ==
    /\ ckOut = NotCalled
    /\ ckOracle = <<>>
    /\ \E l \in CheckLists, present \in BOOLEAN :
          ckIn = [urls |-> [k \in 1..Len(l) |-> Urls[l[k]]],
                  fs |-> IF present
                         THEN WriteFile(NoFiles, join(DL_DIR, <<"x">>), "good")
                         ELSE NoFiles]
    /\ MirrorsAside /\ FetchAside /\ RevisionsAside
    /\ HeadsAside /\ SrcrevAside /\ SumAside /\ UriAside /\ CacheAside

CheckstatusCall ==
    /\ ckOut = NotCalled
    /\ \E oracle \in [1..Len(ckIn.urls) ->
                        [premirror : CheckOutcomes, backend : CheckOutcomes,
                         mirror : CheckOutcomes]] :
          /\ ckOracle' = oracle
          /\ ckOut' = [called |-> TRUE,
                       res |-> checkstatus(Data, ckIn.urls, PREMIRRORS, MIRRORS,
                                           ckIn.fs, oracle)]
    /\ UNCHANGED <<ckIn, besidesCheck>>

CheckNext == CheckstatusCall

SpecCheck == CheckInit /\ [][CheckNext]_<<ckvars, besidesCheck>>

----------------------------------------------------------------------------
(* Calls of sortable_revision, one after the other, on a persistent store   *)
(* that starts empty, while the upstream revisions move.                    *)

\* the names of a URL's revisions
Names == {<<"a">>, <<"b">>}

Revisions == {<<"r", "1">>, <<"r", "2">>}

\* the largest count a call may record
MaxCount == 2

\* the datastores: the override, and the counts it supplies
RevisionData ==
    [PN : {<<"p">>}, BB_LOCALCOUNT_OVERRIDE : {None, <<"1">>},
     LOCALCOUNT : {None, <<"5">>}, LOCALCOUNT_name : {None, <<"7">>}]

\* the backends: without _sortable_buildindex, or with one that answers None
\* or 4
RevisionMethods ==
    {[buildindex_provided |-> FALSE, buildindex |-> None],
     [buildindex_provided |-> TRUE, buildindex |-> None],
     [buildindex_provided |-> TRUE, buildindex |-> <<"4">>]}

RevInit ==
    /\ \E d \in RevisionData, m \in RevisionMethods :
          /\ setup = [d |-> d, m |-> m]
          /\ localcounts = [k \in {generate_revision_key(d, n) : n \in Names} |->
                              [rev |-> None, count |-> None]]
    /\ upstream \in [Names -> Revisions]
    /\ calls = [n \in Names |-> <<>>]
    /\ MirrorsAside /\ FetchAside /\ CheckAside
    /\ HeadsAside /\ SrcrevAside /\ SumAside /\ UriAside /\ CacheAside

\* the last two of a sequence of calls
LastTwo(s) == IF Len(s) > 2 THEN SubSeq(s, Len(s) - 1, Len(s)) ELSE s

\* r is what sortable_revision returned for name n, stored under key
Returned(n, key, r) ==
    /\ IsDigits(r.localcounts[key].count) => int(r.localcounts[key].count) <= MaxCount
    /\ localcounts' = r.localcounts
    /\ calls' = [calls EXCEPT ![n] =
                   LastTwo(Append(@, [rev |-> upstream[n], err |-> r.err,
                                      out |-> r.out, before |-> localcounts[key],
                                      after |-> r.localcounts[key]]))]

SortableRevisionCall(n) ==
    /\ Returned(n, generate_revision_key(setup.d, n),
                sortable_revision(setup.d, setup.m, localcounts, n, upstream[n]))
    /\ UNCHANGED <<setup, upstream, besidesRevisions>>

\* the backend resolves another revision for name n from now on
UpstreamMoves(n) ==
    /\ \E r \in Revisions \ {upstream[n]} : upstream' = [upstream EXCEPT ![n] = r]
    /\ UNCHANGED <<localcounts, setup, calls, besidesRevisions>>

RevNext == \E n \in Names : SortableRevisionCall(n) \/ UpstreamMoves(n)

SpecRev == RevInit /\ [][RevNext]_<<revvars, besidesRevisions>>

----------------------------------------------------------------------------
(* Calls of fetcher_init and latest_revision, one after the other, on a     *)
(* persistent store that starts empty, while the upstream heads move.       *)

\* the largest number of upstream lookups counted for a key
MaxLookups == 2

\* the datastores: each cache policy, a value that is none, the empty value
\* and none set
HeadData ==
    [PN : {<<"p">>},
     BB_SRCREV_POLICY : {None, <<>>, <<"c", "l", "e", "a", "r">>,
                         <<"c", "a", "c", "h", "e">>, <<"k", "e", "e", "p">>}]

\* the backends: with and without _latest_revision
HeadMethods == [latest_revision_provided : BOOLEAN]

HeadKeys(d) == {generate_revision_key(d, n) : n \in Names}

HeadInit ==
    /\ \E d \in HeadData, m \in HeadMethods :
          /\ hconf = [d |-> d, m |-> m]
          /\ headrevs = [k \in HeadKeys(d) |-> None]
          /\ lookups = [k \in HeadKeys(d) |-> 0]
          /\ answers = [k \in HeadKeys(d) |-> {}]
    /\ saved_headrevs = {}
    /\ heads \in [Names -> Revisions]
    /\ hlast = NotCalled
    /\ MirrorsAside /\ FetchAside /\ CheckAside /\ RevisionsAside
    /\ SrcrevAside /\ SumAside /\ UriAside /\ CacheAside

\* r is what fetcher_init did: the count of lookups starts again when the
\* store was cleared
Initialised(r) ==
    /\ headrevs' = r.revs
    /\ saved_headrevs' = r.saved
    /\ lookups' = IF r.cleared THEN [k \in DOMAIN lookups |-> 0] ELSE lookups
    /\ answers' = IF r.cleared THEN [k \in DOMAIN answers |-> {}] ELSE answers
    /\ hlast' = [called |-> TRUE, op |-> "fetcher_init", err |-> r.err,
                 inited |-> r.inited, before |-> headrevs, key |-> <<>>,
                 rev |-> None, queried |-> FALSE, head |-> None,
                 changed |-> FALSE]

FetcherInitCall ==
    /\ Initialised(fetcher_init(hconf.d, headrevs, saved_headrevs))
    /\ UNCHANGED <<hconf, heads, besidesHeads>>

\* r is what latest_revision returned for the key, while upstream had head
Latest(key, r, head) ==
    /\ lookups[key] + (IF r.queried THEN 1 ELSE 0) <= MaxLookups
    /\ headrevs' = r.revs
    /\ lookups' = [lookups EXCEPT ![key] = @ + (IF r.queried THEN 1 ELSE 0)]
    /\ answers' = [answers EXCEPT ![key] =
                      IF r.err = "none" THEN @ \cup {r.rev} ELSE @]
    /\ hlast' = [called |-> TRUE, op |-> "latest_revision", err |-> r.err,
                 inited |-> {}, before |-> headrevs, key |-> key,
                 rev |-> r.rev, queried |-> r.queried, head |-> head,
                 changed |-> FALSE]

\* the backend's _latest_revision answers with the head upstream has
LatestRevisionCall(n) ==
    /\ Latest(generate_revision_key(hconf.d, n),
              latest_revision(hconf.m, hconf.d, headrevs, n,
                              Answer("none", heads[n], TRUE)),
              heads[n])
    /\ UNCHANGED <<saved_headrevs, hconf, heads, besidesHeads>>

\* upstream has another head for name n from now on
HeadMoves(n) ==
    /\ \E r \in Revisions \ {heads[n]} : heads' = [heads EXCEPT ![n] = r]
    /\ UNCHANGED <<headrevs, saved_headrevs, hconf, lookups, answers, hlast,
                   besidesHeads>>

\* r is what fetcher_compare_revisions returned or raised
Compared(r) ==
    hlast' = [called |-> TRUE, op |-> "fetcher_compare_revisions",
              err |-> r.err, inited |-> {}, before |-> headrevs, key |-> <<>>,
              rev |-> None, queried |-> FALSE, head |-> None,
              changed |-> r.ret]

\* the order in which items() lists the entries is the store's: any entry
\* may come first
CompareRevisionsCall ==
    /\ \E first \in FirstItems(headrevs) :
          Compared(fetcher_compare_revisions(headrevs, saved_headrevs, first))
    /\ UNCHANGED <<headrevs, saved_headrevs, hconf, heads, lookups, answers,
                   besidesHeads>>

HeadNext ==
    \/ FetcherInitCall
    \/ \E n \in Names : LatestRevisionCall(n) \/ HeadMoves(n)
    \/ CompareRevisionsCall

SpecHead == HeadInit /\ [][HeadNext]_<<headvars, besidesHeads>>

----------------------------------------------------------------------------
(* One call of srcrev_internal_helper, for every URL parameters, datastore, *)
(* backend and store of head revisions below.                               *)

\* ud.parm: without rev and tag, with one of them, with both
SrcrevParms ==
    {<<>>,
     << <<<<"r", "e", "v">>, <<"x", "1">>>> >>,
     << <<<<"t", "a", "g">>, <<"t", "1">>>> >>,
     << <<<<"t", "a", "g">>, <<"t", "1">>>>, <<<<"r", "e", "v">>, <<"x", "1">>>> >>}

\* the values a SRCREV variable may have, other than a plain revision
SrcrevValues ==
    {None, <<>>, <<"I", "N", "V", "A", "L", "I", "D">>,
     <<"A", "U", "T", "O", "I", "N", "C">>}

SrcrevData ==
    [PN : {<<"p">>},
     BB_NO_NETWORK : {None, <<"0">>, <<"1">>},
     SRCREV_name_pn : SrcrevValues \cup {<<"n", "1">>},
     SRCREV_name : SrcrevValues \cup {<<"n", "2">>},
     SRCREV : SrcrevValues \cup {<<"n", "3">>}]

\* the name asked for: the default name of a URL, or none
SrcrevNames == {<<>>, <<"a">>}

\* the head upstream has
SrcrevHead == <<"r", "2">>

SrcrevInit ==
    /\ \E parm \in SrcrevParms, d \in SrcrevData, m \in HeadMethods,
          name \in SrcrevNames, entry \in {None, <<"r", "1">>} :
          srIn = [parm |-> parm, d |-> d, m |-> m, name |-> name,
                  revs |-> [k \in {generate_revision_key(d, name)} |-> entry]]
    /\ srOut = NotCalled
    /\ MirrorsAside /\ FetchAside /\ CheckAside /\ RevisionsAside
    /\ HeadsAside /\ SumAside /\ UriAside /\ CacheAside

SrcrevCalled(r) ==
    srOut' = [called |-> TRUE, err |-> r.err, rev |-> r.rev, revs |-> r.revs,
              read |-> r.read, queried |-> r.queried, contacted |-> r.contacted]

SrcrevCall ==
    /\ ~srOut.called
    /\ SrcrevCalled(srcrev_internal_helper(srIn.parm, srIn.m, srIn.d, srIn.revs,
                        srIn.name, backend_latest_revision(srIn.d, SrcrevHead)))
    /\ UNCHANGED <<srIn, besidesSrcrev>>

SrcrevNext == SrcrevCall

SpecSrcrev == SrcrevInit /\ [][SrcrevNext]_<<srvars, besidesSrcrev>>

----------------------------------------------------------------------------
(* One call of verify_checksum, for every URL type, declared checksums,     *)
(* strict flag and downloaded file below.                                   *)

SumTypes ==
    {<<"h", "t", "t", "p">>, <<"h", "t", "t", "p", "s">>, <<"f", "t", "p">>,
     <<"f", "t", "p", "s">>, <<"g", "i", "t">>, <<"f", "i", "l", "e">>}

\* the contents a downloaded file may have
SumContents == {"good", "bad"}

SumPath == join(DL_DIR, <<"x">>)

\* the FetchData fields verify_checksum reads: a checksum is not declared,
\* or is the digest of one of the contents
SumUrlData ==
    [type : SumTypes, localpath : {SumPath},
     md5_expected : {None} \cup {<<"md5", c>> : c \in SumContents},
     sha256_expected : {None} \cup {<<"sha256", c>> : c \in SumContents}]

SumData == [BB_STRICT_CHECKSUM : {None, <<"0">>, <<"1">>}]

\* the download directory: without the file, or with it
SumFiles == {NoFiles} \cup {WriteFile(NoFiles, SumPath, c) : c \in SumContents}

SumInit ==
    /\ \E u \in SumUrlData, d \in SumData, f \in SumFiles :
          sumIn = [ud |-> u, d |-> d, fs |-> f]
    /\ sumOut = NotCalled
    /\ MirrorsAside /\ FetchAside /\ CheckAside /\ RevisionsAside
    /\ HeadsAside /\ SrcrevAside /\ UriAside /\ CacheAside

SumVerified(err) ==
    sumOut' = [called |-> TRUE, err |-> err,
               args |-> ChecksumArgs(err, sumIn.fs, sumIn.ud)]

VerifyChecksumCall ==
    /\ ~sumOut.called
    /\ SumVerified(verify_checksum(sumIn.fs, sumIn.ud, sumIn.d))
    /\ UNCHANGED <<sumIn, besidesSum>>

SumNext == VerifyChecksumCall

SpecSum == SumInit /\ [][SumNext]_<<sumvars, besidesSum>>

----------------------------------------------------------------------------
(* One call of the URL functions: decodeurl followed by encodeurl and       *)
(* decodeurl, FetchData.__init__ with the backends that support the URL,    *)
(* and uri_replace.                                                         *)

\* the URL strings: every concatenation of a scheme, a separator, a user
\* part, a location and parameters
UriSchemes == {<<>>, <<"h", "t", "t", "p">>, <<"f", "i", "l", "e">>, <<"g", "i", "t">>}

UriSeparators == {<<":", "/", "/">>, <<":">>}

UriUsers == {<<>>, <<"u", "@">>, <<"u", ":", "p", "@">>, <<":", "p", "@">>}

UriLocations == {<<>>, <<"h", "/", "p">>, <<"h">>, <<"/", "p">>}

UriParms ==
    {<<>>,
     <<";", "k", "=", "v">>,
     <<";", "k", "=", "v", ";", "n", "=", "w">>,
     <<";", "k", "=", "v", ";", "k", "=", "w">>,
     <<";", "k">>}

UriStrings ==
    {s \o c \o u \o l \o p : s \in UriSchemes, c \in UriSeparators,
                             u \in UriUsers, l \in UriLocations, p \in UriParms}

\* the URLs FetchData is built for
UriUrls ==
    {<<"g", "i", "t", ":", "/", "/", "o", "/", "r">>,
     <<"h", "t", "t", "p", ":", "/", "/", "o", "/", "x">>,
     <<"f", "i", "l", "e", ":", "/", "/", "/", "p", "/", "x">>,
     <<"s", "v", "n", ":", "/", "/", "o", "/", "t">>}

\* uri_replace: the URIs and the (find, replace) rules
UriOriginals ==
    {<<"g", "i", "t", ":", "/", "/", "a", "/", "r", "e", "p", "o", ".", "g", "i", "t">>,
     <<"h", "t", "t", "p", ":", "/", "/", "a", "/", "x">>,
     <<"f", "t", "p", ":", "/", "/", "u", ":", "p", "@", "h", "/", "x">>}

\* the last rule has a find pattern whose user and password are the same
UriRules ==
    {<<<<"g", "i", "t", ":", "/", "/", "a">>, <<"g", "i", "t", ":", "/", "/", "b">>>>,
     <<<<"g", "i", "t", ":", "/", "/", "a", "/", ".", "*">>, <<"g", "i", "t", ":", "/", "/", "b", "/", ".", "*">>>>,
     <<<<"h", "t", "t", "p", ":", "/", "/", "a", "/", "x">>, <<"h", "t", "t", "p", ":", "/", "/", "b", "/", "y">>>>,
     <<<<"f", "t", "p", ":", "/", "/", "u", ":", "u", "@", "h", "/", "x">>,
       <<"f", "t", "p", ":", "/", "/", "v", ":", "v", "@", "m", "/", "x">>>>}

UriInit ==
    /\ \/ \E url \in UriStrings : uriIn = [op |-> "codec", url |-> url]
       \/ \E url \in UriUrls, ms \in SUBSET (1..Len(methods)) :
              uriIn = [op |-> "FetchData", url |-> url, ms |-> ms]
       \/ \E uri \in UriOriginals, rule \in UriRules, d \in {NoData, MirrorData} :
              uriIn = [op |-> "uri_replace", uri |-> uri, find |-> rule[1],
                       replace |-> rule[2], d |-> d]
    /\ uriOut = NotCalled
    /\ MirrorsAside /\ FetchAside /\ CheckAside /\ RevisionsAside
    /\ HeadsAside /\ SrcrevAside /\ SumAside /\ CacheAside

\* encodeurl of what decodeurl returned, and decodeurl of that
Recoded(dec, enc) ==
    [called |-> TRUE, dec |-> dec, enc |-> enc,
     redec |-> IF enc.err = "none" THEN decodeurl(enc.url) ELSE Raised(enc.err)]

Encoded(dec) ==
    Recoded(dec, IF dec.err = "none" THEN encodeurl(dec)
                 ELSE [err |-> dec.err, url |-> <<>>])

CodecCall ==
    /\ ~uriOut.called /\ uriIn.op = "codec"
    /\ uriOut' = Encoded(decodeurl(uriIn.url))
    /\ UNCHANGED <<uriIn, besidesUri>>

FetchDataCall ==
    /\ ~uriOut.called /\ uriIn.op = "FetchData"
    /\ uriOut' = [called |-> TRUE,
                  ud |-> FetchDataMethod(uriIn.url, MirrorData,
                                         decodeurl(uriIn.url), uriIn.ms)]
    /\ UNCHANGED <<uriIn, besidesUri>>

UriReplaceCall ==
    /\ ~uriOut.called /\ uriIn.op = "uri_replace"
    /\ uriOut' = [called |-> TRUE,
                  result |-> uri_replace(uriIn.uri, uriIn.find, uriIn.replace,
                                         uriIn.d)]
    /\ UNCHANGED <<uriIn, besidesUri>>

UriNext == CodecCall \/ FetchDataCall \/ UriReplaceCall

SpecUri == UriInit /\ [][UriNext]_<<urivars, besidesUri>>

----------------------------------------------------------------------------
(* Fetch objects built, and their localpath called, one call after the      *)
(* other, for the build files and URLs below.  urldata_cache holds for a    *)
(* build file the dict that every Fetch object of the file shares (has is   *)
(* false before the first); a record is kept with the number of the         *)
(* construction that made it.                                               *)

\* the most constructions of FetchData counted for a build file and URL
MaxBuilt == 2

\* the values of FILE
CacheFiles == {"a.bb", "b.bb"}

\* the URLs: two that backends support and one that none supports
CacheUrls ==
    {<<"g", "i", "t", ":", "/", "/", "o", "/", "r">>, <<"h", "t", "t", "p", ":", "/", "/", "o", "/", "x">>,
     <<"s", "v", "n", ":", "/", "/", "o", "/", "t">>}

\* the datastore: SRC_URI is what Fetch takes when it is given no URL
CacheData ==
    [DL_DIR |-> DL_DIR, md5sum |-> None, sha256sum |-> None,
     SRC_URI |-> <<<<"g", "i", "t", ":", "/", "/", "o", "/", "r">>,
                   <<"h", "t", "t", "p", ":", "/", "/", "o", "/", "x">>>>]

\* the lists of URLs a Fetch is built for
CacheLists ==
    {<<>>} \cup {<<u>> : u \in CacheUrls}
           \cup {l \in {<<u, v>> : u \in CacheUrls, v \in CacheUrls} : l[1] # l[2]}

EmptyDict == [u \in {} |-> 0]

\* how the loop of Fetch.__init__ ended: the exception, self.ud and the count
\* of constructions
FetchBuilt(err, dict, n) == [err |-> err, ud |-> dict, n |-> n]

RECURSIVE FetchInitFrom(_, _, _, _, _)

\* self.ud[url] = FetchData(url, d), rec being what FetchData(url, d) gives
FetchInitStep(urls, d, i, dict, n, rec) ==
    IF rec.err # "none" THEN FetchBuilt(rec.err, dict, n)
    ELSE FetchInitFrom(urls, d, i + 1,
                       dict @@ (urls[i] :> [serial |-> n[urls[i]] + 1, ud |-> rec]),
                       [n EXCEPT ![urls[i]] = @ + 1])

\* the loop of Fetch.__init__ from the i-th URL on
FetchInitFrom(urls, d, i, dict, n) ==
    IF i > Len(urls) THEN FetchBuilt("none", dict, n)
    ELSE IF urls[i] \in DOMAIN dict THEN FetchInitFrom(urls, d, i + 1, dict, n)
    ELSE FetchInitStep(urls, d, i, dict, n, FetchData(urls[i], d))

\* Fetch.__init__(urls, d) for the build file whose entry of urldata_cache
\* is cached, n counting the constructions for the file
FetchInit(urls, d, cached, n) ==
    FetchInitFrom(IF Len(urls) = 0 THEN d.SRC_URI ELSE urls, d, 1,
                  IF cached.has THEN cached.dict ELSE EmptyDict, n)

\* Fetch.localpath once the record of the URL is in self.ud
LocalpathSetup(url, d, dict, n) ==
    [err |-> "none",
     ud |-> [dict EXCEPT ![url].ud = setup_localpath(@, d)],
     n |-> n, path |-> setup_localpath(dict[url].ud, d).localpath]

\* self.ud[url] = FetchData(url, self.d), rec being what FetchData gives
LocalpathBuilt(url, d, dict, n, rec) ==
    IF rec.err # "none"
    THEN [err |-> rec.err, ud |-> dict, n |-> n, path |-> None]
    ELSE LocalpathSetup(url, d,
                        [u \in DOMAIN dict \cup {url} |->
                            IF u = url THEN [serial |-> n[url] + 1, ud |-> rec]
                            ELSE dict[u]],
                        [n EXCEPT ![url] = @ + 1])

\* Fetch.localpath(url) of a Fetch object built for urls, dict being self.ud
FetchLocalpath(urls, url, d, dict, n) ==
    IF \A i \in 1..Len(urls) : urls[i] # url
    THEN LocalpathBuilt(url, d, dict, n, FetchData(url, d))
    ELSE LocalpathSetup(url, d, dict, n)

CacheInit ==
    /\ urldata_cache = [fn \in CacheFiles |-> [has |-> FALSE, dict |-> EmptyDict]]
    /\ fetchers = [fn \in CacheFiles |-> [built |-> FALSE, urls |-> <<>>]]
    /\ built = [fn \in CacheFiles |-> [u \in CacheUrls |-> 0]]
    /\ clast = NotCalled
    /\ MirrorsAside /\ FetchAside /\ CheckAside /\ RevisionsAside
    /\ HeadsAside /\ SrcrevAside /\ SumAside /\ UriAside

\* r is what Fetch.__init__ did for build file fn: a dict that was cached is
\* the one the loop wrote to, whether or not the loop raised
Fetched(fn, urls, r) ==
    /\ \A u \in CacheUrls : r.n[u] <= MaxBuilt
    /\ built' = [built EXCEPT ![fn] = r.n]
    /\ urldata_cache' = IF r.err = "none" \/ urldata_cache[fn].has
                        THEN [urldata_cache EXCEPT
                                 ![fn] = [has |-> TRUE, dict |-> r.ud]]
                        ELSE urldata_cache
    /\ fetchers' = IF r.err = "none"
                   THEN [fetchers EXCEPT ![fn] =
                            [built |-> TRUE,
                             urls |-> IF Len(urls) = 0 THEN CacheData.SRC_URI
                                      ELSE urls]]
                   ELSE fetchers
    /\ clast' = [called |-> TRUE, op |-> "Fetch", fn |-> fn, err |-> r.err,
                 urls |-> IF Len(urls) = 0 THEN CacheData.SRC_URI ELSE urls,
                 path |-> None]

FetchCall(fn, urls) ==
    /\ Fetched(fn, urls, FetchInit(urls, CacheData, urldata_cache[fn], built[fn]))
    /\ UNCHANGED besidesCache

\* r is what localpath did on the Fetch object of build file fn
Localpathed(fn, url, r) ==
    /\ r.n[url] <= MaxBuilt
    /\ built' = [built EXCEPT ![fn] = r.n]
    /\ urldata_cache' = [urldata_cache EXCEPT ![fn].dict = r.ud]
    /\ clast' = [called |-> TRUE, op |-> "localpath", fn |-> fn, err |-> r.err,
                 urls |-> <<url>>, path |-> r.path]

LocalpathCall(fn, url) ==
    /\ fetchers[fn].built
    /\ Localpathed(fn, url, FetchLocalpath(fetchers[fn].urls, url, CacheData,
                                           urldata_cache[fn].dict, built[fn]))
    /\ UNCHANGED <<fetchers, besidesCache>>

CacheNext ==
    \E fn \in CacheFiles :
        \/ \E urls \in CacheLists : FetchCall(fn, urls)
        \/ \E url \in CacheUrls : LocalpathCall(fn, url)

SpecCache == CacheInit /\ [][CacheNext]_<<cachevars, besidesCache>>

----------------------------------------------------------------------------
(* Properties of Fetch.download and Fetch.unpack                            *)

\* process p holds a lock
Holds(p) == \E h \in locks : h[1] = p

\* process p is between the acquisition of a lock and its release
Guarded(p) ==
    \/ pc[p] \in {"d_premirror", "d_backend", "d_mirrors", "d_check", "d_stamp",
                  "d_unlock"}
    \/ (pc[p] \in {"u_run", "u_unlock"} /\ ~Falsy(Ud(p).lockfile))

\* C1: in Fetch.download and Fetch.unpack the lock acquired for a URL is
\* released on every path out of the guarded section: once the call has
\* returned or raised, the process holds no lock.
C1_LockReleasedOnEveryPath ==
    \A p \in Procs : pc[p] = "idle" => ~Holds(p)

\* C2: the guarded sections of two processes never overlap for URLs that
\* resolve to the same lock-file path.
C2_GuardedSectionsExclusive ==
    \A p \in Procs, q \in Procs :
        (p # q /\ Guarded(p) /\ Guarded(q)) => Ud(p).lockfile # Ud(q).lockfile

\* one process is in its guarded section while the other waits for the same
\* lock, one in download and one in unpack
C2_Witness ==
    \E p \in Procs, q \in Procs :
        /\ p # q
        /\ pc[p] = "d_stamp"
        /\ pc[q] = "u_next"
        /\ cur[q].i = cur[p].i

\* the sources a download has tried for its URL, in the order of the trial
SourceOrders ==
    {<<>>} \cup
    UNION {{<<s>>, <<s, "backend">>, <<s, "backend", "mirrors">>} :
              s \in {"premirrors", "local"}}

\* the step that decides on the backend's download is over
BackendDecided(p) == pc[p] \in {"d_mirrors", "d_check", "d_stamp", "d_unlock"}

\* C3: for each URL Fetch.download tries premirrors (or adopts the local
\* copy), then the backend's download, then MIRRORS; the backend's download
\* is invoked if and only if the premirror/local step gave no artifact or
\* forcefetch is true, and MIRRORS is never tried before the backend.
C3_SourceOrder ==
    \A p \in Procs :
        /\ cur[p].trace \in SourceOrders
        /\ last[p].trace \in SourceOrders
        /\ BackendDecided(p) =>
              ((\E j \in 1..Len(cur[p].trace) : cur[p].trace[j] = "backend")
                  <=> (cur[p].forced \/ Falsy(cur[p].pre)))

\* a forced download after premirrors gave an artifact, followed by MIRRORS
C3_Witness ==
    \E p \in Procs :
        /\ pc[p] = "d_check"
        /\ cur[p].forced
        /\ ~Falsy(cur[p].pre)
        /\ cur[p].trace = <<"premirrors", "backend", "mirrors">>

\* C4: Fetch.download raises FetchError for a URL whenever premirrors, local
\* copy, backend and mirrors gave no existing artifact (it gets past the test
\* only with one), and then no done stamp is created for the URL.
C4_FetchErrorWhenNothingFetched ==
    \A p \in Procs :
        /\ pc[p] \in {"d_stamp", "d_unlock"} =>
              (~Falsy(cur[p].localpath) /\ ExistsAt(fs, cwd, cur[p].localpath))
        /\ (last[p].op = "download" /\ last[p].at = "d_check") =>
              (last[p].err = "FetchError" /\ ~last[p].created)

\* premirrors, backend and mirrors were tried, none gave a file, and the call
\* raised FetchError with no done stamp in place
C4_Witness ==
    \E p \in Procs :
        /\ pc[p] = "idle"
        /\ last[p].err = "FetchError"
        /\ last[p].at = "d_check"
        /\ last[p].trace = <<"premirrors", "backend", "mirrors">>
        /\ ~Exists(fs, ud[last[p].i].donestamp)

\* C5: whenever the done stamp of an http/https/ftp/ftps URL with declared
\* checksums exists, the artifact at its local path passes the checksum
\* verification; stated for the states where every call has returned and no
\* lock is held.
C5_StampMeansVerified ==
    (locks = {} /\ \A p \in Procs : pc[p] = "idle" /\ last[p].err = "none") =>
        \A i \in 1..Len(Urls) :
            (~Falsy(ud[i].donestamp) /\ Exists(fs, ud[i].donestamp)
                /\ Exists(fs, ud[i].localpath))
            => verify_checksum(fs, setup_localpath(ud[i], Data), Data) = "none"

----------------------------------------------------------------------------
(* Properties of Fetch.checkstatus                                          *)

\* C9: Fetch.checkstatus raises FetchError for a URL only after premirrors,
\* the backend's check and the general mirrors have all failed: when the
\* backend's check was asked and failed, by returning false or by raising,
\* the general mirrors were consulted before FetchError is raised.
C9_MirrorsBeforeFetchError ==
    ckOut.called =>
        \A k \in 1..Len(ckOut.res.log) :
            (ckOut.res.err = "FetchError" /\ ckOut.res.at = k
                /\ ckOut.res.log[k].backend \notin {"none", "true"})
            => ckOut.res.log[k].mirrors

----------------------------------------------------------------------------
(* Properties of sortable_revision                                          *)

\* C10: two successive calls of sortable_revision for the same key with the
\* same underlying revision return the same "<count>+<revision>" string and
\* the second leaves both persisted entries unchanged; the persisted count
\* changes only in a call whose revision differs from the recorded one.
C10_StableOnUnchangedRevision ==
    \A n \in Names :
        /\ (Len(calls[n]) = 2 /\ calls[n][1].rev = calls[n][2].rev
               /\ calls[n][1].err = "none" /\ calls[n][2].err = "none")
           => (calls[n][2].out = calls[n][1].out
                  /\ calls[n][2].after = calls[n][2].before)
        /\ \A j \in 1..Len(calls[n]) :
              calls[n][j].after.count # calls[n][j].before.count
              => calls[n][j].rev # calls[n][j].before.rev

\* the numeric count prefix of a "<count>+<revision>" string
CountPrefix(out) == int(SubSeq(out, 1, Find(out, "+") - 1))

\* C11: a call of sortable_revision made after the underlying revision
\* changed returns a count prefix strictly greater than the one returned by
\* the call before it for the same key, whatever the local-count override
\* and whether or not the backend has a build-index hook, and the new
\* (revision, count) pair is in the store when it returns.
C11_StrictlyIncreasing ==
    \A n \in Names :
        (Len(calls[n]) = 2 /\ calls[n][1].err = "none" /\ calls[n][2].err = "none"
            /\ calls[n][2].rev # calls[n][2].before.rev)
        => /\ CountPrefix(calls[n][2].out) > CountPrefix(calls[n][1].out)
           /\ calls[n][2].after.rev = calls[n][2].rev
           /\ calls[n][2].out = calls[n][2].after.count \o <<"+">> \o calls[n][2].rev

\* C12: latest_revision reads the store of head revisions first: a key with
\* an entry is answered from the store without asking the backend, a key
\* without one is answered by the backend, once, and the answer is stored
\* under the key and returned; so between two clears of the store the
\* backend is asked at most once for a key and every call for the key
\* returns the same revision.
C12_CacheFirst ==
    /\ \A k \in DOMAIN lookups : lookups[k] <= 1 /\ Cardinality(answers[k]) <= 1
    /\ (hlast.called /\ hlast.op = "latest_revision" /\ hlast.err = "none") =>
          IF hlast.before[hlast.key] # None
          THEN /\ ~hlast.queried
               /\ hlast.rev = hlast.before[hlast.key]
               /\ headrevs = hlast.before
          ELSE /\ hlast.queried
               /\ hlast.rev = hlast.head
               /\ headrevs = [hlast.before EXCEPT ![hlast.key] = hlast.head]

\* a call answered from the store after upstream had moved on
C12_Witness ==
    /\ hlast.called /\ hlast.op = "latest_revision" /\ hlast.err = "none"
    /\ hlast.before[hlast.key] # None
    /\ hlast.rev # hlast.head
    /\ lookups[hlast.key] = 1

\* C13: fetcher_init applies the cache policy BB_SRCREV_POLICY: under
\* "clear", and when the policy is not set, every entry of the store of head
\* revisions is dropped; under "cache" the store is left as it was; under any
\* other value fetcher_init raises FetchError, leaves the store as it was
\* and initialises no backend.
C13_InitPolicy ==
    (hlast.called /\ hlast.op = "fetcher_init") =>
        IF hconf.d.BB_SRCREV_POLICY \in {None, <<>>, <<"c", "l", "e", "a", "r">>}
        THEN hlast.err = "none" /\ \A k \in DOMAIN headrevs : headrevs[k] = None
        ELSE IF hconf.d.BB_SRCREV_POLICY = <<"c", "a", "c", "h", "e">>
        THEN hlast.err = "none" /\ headrevs = hlast.before
        ELSE /\ hlast.err = "FetchError"
             /\ headrevs = hlast.before
             /\ hlast.inited = {}

\* fetcher_init dropped an entry of the store with no policy set
C13_Witness ==
    /\ hlast.called /\ hlast.op = "fetcher_init"
    /\ hconf.d.BB_SRCREV_POLICY = None
    /\ \E k \in DOMAIN hlast.before : hlast.before[k] # None
    /\ \A k \in DOMAIN headrevs : headrevs[k] = None

\* the SRCREV values srcrev_internal_helper looks at for a name, in order
SrcrevLevels(d, name) ==
    IF name = <<>> THEN <<d.SRCREV>>
    ELSE <<d.SRCREV_name_pn, d.SRCREV_name, d.SRCREV>>

\* the first value that is set, the last one when none is
FirstSet(levels) ==
    IF \E i \in 1..Len(levels) : ~Falsy(levels[i])
    THEN levels[SetMin({i \in 1..Len(levels) : ~Falsy(levels[i])})]
    ELSE levels[Len(levels)]

\* the URL carries neither rev nor tag
NoExplicitRev(parm) == ~ParmHas(parm, <<"r", "e", "v">>) /\ ~ParmHas(parm, <<"t", "a", "g">>)

\* C14: srcrev_internal_helper returns the URL's rev parameter, else its tag
\* parameter, as it is, without reading or writing the store of head
\* revisions and without asking the backend; otherwise its value is the first
\* one set of SRCREV_<name>_pn-<PN>, SRCREV_<name> and SRCREV, and when that
\* value is INVALID it raises FetchError and returns no revision.
C14_Resolution ==
    srOut.called =>
        IF ParmHas(srIn.parm, <<"r", "e", "v">>)
        THEN /\ srOut.err = "none" /\ srOut.rev = <<"x", "1">>
             /\ ~srOut.read /\ ~srOut.queried /\ srOut.revs = srIn.revs
        ELSE IF ParmHas(srIn.parm, <<"t", "a", "g">>)
        THEN /\ srOut.err = "none" /\ srOut.rev = <<"t", "1">>
             /\ ~srOut.read /\ ~srOut.queried /\ srOut.revs = srIn.revs
        ELSE IF FirstSet(SrcrevLevels(srIn.d, srIn.name)) = <<"I", "N", "V", "A", "L", "I", "D">>
        THEN srOut.err = "FetchError" /\ srOut.rev = None /\ srOut.revs = srIn.revs
        ELSE IF FirstSet(SrcrevLevels(srIn.d, srIn.name)) # <<"A", "U", "T", "O", "I", "N", "C">>
        THEN /\ srOut.err = "none"
             /\ srOut.rev = FirstSet(SrcrevLevels(srIn.d, srIn.name))
        ELSE TRUE

\* the value for the name was returned although SRCREV is set too, and
\* SRCREV_<name>_pn-<PN> is set to the empty string
C14_Witness ==
    /\ srOut.called /\ NoExplicitRev(srIn.parm) /\ srIn.name # <<>>
    /\ srIn.d.SRCREV_name_pn = <<>>
    /\ srIn.d.SRCREV_name = <<"n", "2">>
    /\ srIn.d.SRCREV = <<"I", "N", "V", "A", "L", "I", "D">>
    /\ srOut.err = "none" /\ srOut.rev = <<"n", "2">>

SumPlain ==
    /\ sumIn.ud.type \in {<<"h", "t", "t", "p">>, <<"h", "t", "t", "p", "s">>,
                          <<"f", "t", "p">>, <<"f", "t", "p", "s">>}
    /\ Exists(sumIn.fs, sumIn.ud.localpath)

\* a checksum is declared and is not the digest of the artifact
Md5Mismatch ==
    /\ sumIn.ud.md5_expected # None
    /\ sumIn.ud.md5_expected # Digest("md5", sumIn.fs, sumIn.ud.localpath)

Sha256Mismatch ==
    /\ sumIn.ud.sha256_expected # None
    /\ sumIn.ud.sha256_expected # Digest("sha256", sumIn.fs, sumIn.ud.localpath)

\* C17: verify_checksum of an http, https, ftp or ftps artifact raises
\* whenever a declared checksum is not the computed one: MD5SumError for a
\* declared MD5 sum, SHA256SumError for a declared SHA256 sum (either of the
\* two when both mismatch), with the path, the expected and the computed
\* value, whichever checksums are declared and whatever BB_STRICT_CHECKSUM is.
C17_MismatchRaises ==
    (sumOut.called /\ SumPlain) =>
        /\ (Md5Mismatch /\ ~Sha256Mismatch) =>
              /\ sumOut.err = "MD5SumError"
              /\ sumOut.args = <<sumIn.ud.localpath, sumIn.ud.md5_expected,
                                 Digest("md5", sumIn.fs, sumIn.ud.localpath)>>
        /\ (Sha256Mismatch /\ ~Md5Mismatch) =>
              /\ sumOut.err = "SHA256SumError"
              /\ sumOut.args = <<sumIn.ud.localpath, sumIn.ud.sha256_expected,
                                 Digest("sha256", sumIn.fs, sumIn.ud.localpath)>>
        /\ (Md5Mismatch /\ Sha256Mismatch) =>
              sumOut.err \in {"MD5SumError", "SHA256SumError"}

C16_FirstSupporting ==
    (uriOut.called /\ uriIn.op = "FetchData") =>
        IF uriIn.ms = {}
        THEN uriOut.ud.err = "NoMethodError" /\ DOMAIN uriOut.ud = {"err"}
        ELSE /\ uriOut.ud.err = "none"
             /\ \E i \in uriIn.ms :
                   /\ uriOut.ud.method = methods[i]
                   /\ \A j \in uriIn.ms : i <= j

\* two backends support the URL and the one registered first is bound
C16_Witness ==
    /\ uriOut.called /\ uriIn.op = "FetchData"
    /\ uriIn.ms = {2, 3}
    /\ uriOut.ud.err = "none" /\ uriOut.ud.method = methods[2]

\* the text of a URL string after its first "://", <<>> when it has none
AfterSeparator(url) ==
    IF \E k \in 1..Len(url) : StartsAt(url, k, <<":", "/", "/">>)
    THEN From(url, 3 + SetMin({k \in 1..Len(url) : StartsAt(url, k, <<":", "/", "/">>)}))
    ELSE <<>>

\* the same mapping of parameters
SameParms(p, q) == {p[i] : i \in 1..Len(p)} = {q[i] : i \in 1..Len(q)}

\* e decodes to a URI equivalent to d: the same scheme, path and parameters
\* and, but for the file scheme that drops them, the same host and
\* credentials
Equivalent(d, e) ==
    /\ e.err = "none"
    /\ e.type = d.type /\ e.path = d.path /\ SameParms(e.parm, d.parm)
    /\ IF d.type = <<"f", "i", "l", "e">>
       THEN e.host = <<>> /\ e.user = <<>> /\ e.pswd = <<>>
       ELSE e.host = d.host /\ e.user = d.user /\ e.pswd = d.pswd

\* C19: for every string decodeurl accepts, the decoded scheme and path are
\* not empty, encodeurl of the decoded URI succeeds and its result decodes
\* to an equivalent URI; decodeurl raises MalformedUrl for a string without
\* "://" and for one with nothing after it.
C19_RoundTrip ==
    (uriOut.called /\ uriIn.op = "codec") =>
        /\ uriOut.dec.err = "none" =>
              /\ uriOut.dec.type # <<>> /\ uriOut.dec.path # <<>>
              /\ uriOut.enc.err = "none"
              /\ Equivalent(uriOut.dec, uriOut.redec)
        /\ AfterSeparator(uriIn.url) = <<>> => uriOut.dec.err = "MalformedUrl"

\* C20: uri_replace of "git://a/repo.git" with the find pattern "git://a"
\* and the replacement "git://b" returns "git://b/repo.git".
C20_HostReplaced ==
    (/\ uriOut.called /\ uriIn.op = "uri_replace"
     /\ uriIn.uri = <<"g", "i", "t", ":", "/", "/", "a", "/", "r", "e", "p", "o", ".", "g", "i", "t">>
     /\ uriIn.find = <<"g", "i", "t", ":", "/", "/", "a">>
     /\ uriIn.replace = <<"g", "i", "t", ":", "/", "/", "b">>)
    => /\ uriOut.result.err = "none"
       /\ uriOut.result.url = <<"g", "i", "t", ":", "/", "/", "b", "/", "r", "e", "p", "o", ".", "g", "i", "t">>

\* a string component of the find pattern does not match the component of
\* the URI at its place (scheme, host, path, user, password)
ComponentFails(uri, find) ==
    \E c \in 1..5 : ~re_match(Components(decodeurl(find))[c],
                               Components(decodeurl(uri))[c])

\* C21: uri_replace is all or nothing: when a string component of the find
\* pattern does not match the component of the URI at its place, the
\* original URI is returned as it is; a rewritten URI is returned only when
\* every component of the find pattern matched.
C21_AllOrNothing ==
    (/\ uriOut.called /\ uriIn.op = "uri_replace"
     /\ ComponentFails(uriIn.uri, uriIn.find))
    => uriOut.result = [err |-> "none", url |-> uriIn.uri]

\* C22: over any sequence of Fetch constructions and Fetch.localpath calls
\* for one build file, FetchData is constructed at most once for a URL, so
\* every later use of the URL gets the record made first; and once a Fetch is
\* built, the entry of urldata_cache for its build file holds a record for
\* each URL it was built for.
C22_BuiltOnce ==
    /\ \A fn \in DOMAIN built : \A u \in DOMAIN built[fn] : built[fn][u] <= 1
    /\ \A fn \in DOMAIN urldata_cache :
          \A u \in DOMAIN urldata_cache[fn].dict :
              urldata_cache[fn].dict[u].serial = 1
    /\ (clast.called /\ clast.op = "Fetch" /\ clast.err = "none") =>
          /\ urldata_cache[clast.fn].has
          /\ \A i \in 1..Len(clast.urls) :
                clast.urls[i] \in DOMAIN urldata_cache[clast.fn].dict

\* C23: whenever the backend's download, or its hook after the download,
\* fails in Fetch.download, whatever the exception is, the file at the URL's
\* local path is removed and MIRRORS is tried by try_mirrors before download
\* fails for the URL: no call ends at the backend's step, and at the step
\* that tries MIRRORS no file is at the local path.
C23_BackendFailureFallsBack ==
    \A p \in Procs :
        /\ pc[p] = "d_mirrors" => ~Exists(fs, Ud(p).localpath)
        /\ last[p].op = "download" => last[p].at # "d_backend"

\* C24: the done-stamp step of Fetch.download: when the done stamp is there
\* the checksums are not computed and the stamp is only touched, and the
\* download goes on when touching it fails; when it is not there it is
\* created only after verify_checksum returned, so a call that ends at this
\* step ends with an exception of verify_checksum and leaves no done stamp.
C24_StampStep ==
    \A p \in Procs :
        /\ (last[p].op = "download" /\ last[p].at = "d_stamp") =>
              /\ last[p].err \in {"IOError", "FetchError", "MD5SumError",
                                  "SHA256SumError"}
              /\ ~last[p].created
              /\ ~Exists(fs, ud[last[p].i].donestamp)
        /\ pc[p] = "d_unlock" =>
              /\ Exists(fs, Ud(p).donestamp)
              /\ cur[p].stamp \in {"touched", "untouched", "created"}
              /\ cur[p].stamp = "created" =>
                    (cur[p].created /\ verify_checksum(fs, Ud(p), Data) = "none")

\* a download that ended at the done-stamp step because the artifact's md5
\* differs, and left no done stamp
C24_Witness ==
    \E p \in Procs :
        /\ last[p].op = "download" /\ last[p].at = "d_stamp"
        /\ last[p].err = "MD5SumError"
        /\ ~Exists(fs, ud[last[p].i].donestamp)

\* the expected download path of the call is readable
TmPresent == Exists(tmIn.fs, join(DL_DIR, basename(tmIn.uri)))

\* C25: when try_mirrors is called neither in check mode nor forced and the
\* expected download path (DL_DIR joined with the basename of the URI) is
\* readable, it returns that path, evaluates no mirror rule, calls no backend
\* and leaves the files as they are; when the call is forced or in check
\* mode and the file is there, the mirror rules are evaluated from the first.
C25_ShortCircuit ==
    tmOut.called =>
        /\ (~tmIn.check /\ ~tmIn.force /\ TmPresent) =>
              tmOut.res = TMResult(join(DL_DIR, basename(tmIn.uri)), "none",
                                   tmIn.fs, <<>>)
        /\ ((tmIn.check \/ tmIn.force) /\ TmPresent /\ tmIn.mirrors # <<>>) =>
              \/ tmOut.res.err # "none"
              \/ TmLog # <<>> /\ TmLog[1].rule = 1

\* a call with mirror rules that took the short cut
C25_Witness ==
    /\ tmOut.called
    /\ ~tmIn.check /\ ~tmIn.force /\ TmPresent
    /\ Len(tmIn.mirrors) = MaxRules
    /\ tmOut.res.ret = join(DL_DIR, basename(tmIn.uri))
    /\ TmLog = <<>>

\* C26: Fetch.checkstatus reads the local files and changes none: whatever
\* the existence checks of the premirror candidates, the backends and the
\* mirror candidates answer or raise, the files after the call (artifacts,
\* done stamps, lock files) are the files before it.
C26_CheckstatusReadOnly ==
    ckOut.called => ckOut.res.fs = ckIn.fs

\* C27: fetcher_compare_revisions returns true exactly when some entry of
\* the head-revision store is not in saved_headrevs with the same value, and
\* false (without raising) when every entry of the store is in
\* saved_headrevs with the same value; the store is left as it was.
C27_ChangedIffDiffers ==
    (hlast.called /\ hlast.op = "fetcher_compare_revisions") =>
        /\ hlast.err = "none"
        /\ hlast.changed <=> (Items(headrevs) \ saved_headrevs # {})
        /\ headrevs = hlast.before

====
